---- MODULE Spec2Model ----
(***************************************************************************)
(* Event-triggered email campaigns: the campaign matcher (processEvent),   *)
(* the composer (scheduleEmail), the event sweep                           *)
(* (processUnprocessedEvents), the delivery worker                         *)
(* (processScheduledEmails) and the tracking collector (trackEmailOpen,    *)
(* trackEmailClick), over one shared document store.                       *)
(*                                                                         *)
(* Every `await` of the service code is a point where other tasks run, so  *)
(* each action below is the code between two awaits together with the     *)
(* store operation that ends it.  A document loaded from the store is a    *)
(* private copy: save() writes the paths the task modified, it neither     *)
(* re-reads the stored document nor checks its current value.              *)
(***************************************************************************)
EXTENDS Integers, Sequences, FiniteSets, TLC

\* ------------------------------------------------------------------ bounds
MaxEvents == 1      \* events ingested in one behaviour
MaxTime == 2        \* the clock runs over 0..MaxTime
MaxFaults == 1      \* store / process faults injected in one behaviour
MaxEmails == 3      \* capacity of the Delivery collection
MaxTriggered == 3   \* capacity of one Event.triggeredCampaigns array
LinksPerEmail == 2  \* anchors in the body of the HTML template

\* ------------------------------------------------------- program constants
EventBatchSize == 100   \* EVENT_BATCH_SIZE default
EmailBatchSize == 10    \* EMAIL_BATCH_SIZE default

NoDate == -1            \* a Date field that is not set (null / undefined)

Users == {"u1", "u2"}            \* user documents that exist
UserIds == Users \cup {"u9"}     \* "u9": an id with no user document
Campaigns == <<"c1", "c2">>      \* campaign ids in natural (insertion) order
CampaignIds == {Campaigns[i] : i \in DOMAIN Campaigns}
Sweepers == {"s1"}               \* event sweep instances
Workers == {"w1", "w2"}          \* delivery worker instances
Hits == {"h1", "h2", "h3"}       \* tracking requests in flight
Times == 0..MaxTime

Min(a, b) == IF a < b THEN a ELSE b

\* ------------------------------------------------------------ campaign model
\* A JavaScript value found in an event or given as an operand: a number, a
\* string (the strings used here are not numerals) or undefined.
Num(n) == [kind |-> "num", n |-> n, s |-> ""]
Str(s) == [kind |-> "str", n |-> 0, s |-> s]
Undefined == [kind |-> "undef", n |-> 0, s |-> ""]

\* the keys of Event.metadata that conditions refer to
MetaKeys == {"k", "j"}

\* One entry of Campaign.conditions, for the key path "metadata.<key>".
\*   kind "lit"  : a literal operand (plain equality)
\*   kind "obj"  : an operator object; ops is the set of operators it carries
\*   kind "null" : the JSON value null
CondLit(v) == [key |-> "k", kind |-> "lit", lit |-> v, ops |-> {}, exV |-> FALSE, eqV |-> Undefined, gtV |-> 0, ltV |-> 0]
CondExists(b) == [key |-> "k", kind |-> "obj", lit |-> Undefined, ops |-> {"exists"}, exV |-> b, eqV |-> Undefined, gtV |-> 0, ltV |-> 0]
CondEquals(v) == [key |-> "k", kind |-> "obj", lit |-> Undefined, ops |-> {"equals"}, exV |-> FALSE, eqV |-> v, gtV |-> 0, ltV |-> 0]
CondGt(n) == [key |-> "k", kind |-> "obj", lit |-> Undefined, ops |-> {"gt"}, exV |-> FALSE, eqV |-> Undefined, gtV |-> n, ltV |-> 0]
CondLt(n) == [key |-> "k", kind |-> "obj", lit |-> Undefined, ops |-> {"lt"}, exV |-> FALSE, eqV |-> Undefined, gtV |-> 0, ltV |-> n]
CondNull == [key |-> "k", kind |-> "null", lit |-> Undefined, ops |-> {}, exV |-> FALSE, eqV |-> Undefined, gtV |-> 0, ltV |-> 0]

\* the same entry under the key path "metadata.<key>"
OnKey(cond, key) == [cond EXCEPT !.key = key]

\* What event.metadata[key] gives: nothing (the key is absent), or a value
MetaAbsent == [has |-> FALSE, val |-> Undefined]
MetaVal(v) == [has |-> TRUE, val |-> v]

\* Event.metadata with the given entry under "k" and no other key
MetaK(slot) == [key \in MetaKeys |-> IF key = "k" THEN slot ELSE MetaAbsent]

\* Event.metadata with entries under "k" and "j"
MetaKJ(slotK, slotJ) == [key \in MetaKeys |-> IF key = "k" THEN slotK ELSE slotJ]

\* JavaScript ToBoolean
ToBoolean(v) ==
    CASE v.kind = "num" -> v.n # 0
      [] v.kind = "str" -> v.s # ""
      [] OTHER -> FALSE

\* mutant of Truthy: the path walk accepts whatever it finds
TruthyAlways(m) == TRUE

\* JavaScript truthiness of what the path walk finds (line 155)
Truthy(m) == m.has /\ ToBoolean(m.val)

\* JavaScript v <= n and v >= n for a number n: a string that is not a
\* numeral converts to NaN and every comparison with NaN is false
JsLe(v, n) == v.kind = "num" /\ v.n <= n
JsGe(v, n) == v.kind = "num" /\ v.n >= n

\* mutant of isDateActive: the end date is not looked at
isDateActiveNoEnd(c, t) == t >= c.startDate

\* campaignSchema.virtual('isDateActive')
isDateActive(c, t) ==
    LET isAfterStart == t >= c.startDate
        isBeforeEnd == c.endDate = NoDate \/ t <= c.endDate
    IN  isAfterStart /\ isBeforeEnd

\* mutant of shouldSendToUser: a user on the allow-list is not looked up in
\* the deny-list
shouldSendToUserAllowFirst(c, userId) ==
    IF c.audience # {} THEN userId \in c.audience
    ELSE userId \notin c.excludedAudience

\* campaignSchema.methods.shouldSendToUser
shouldSendToUser(c, userId) ==
    IF c.audience # {} /\ userId \notin c.audience THEN FALSE
    ELSE IF userId \in c.excludedAudience THEN FALSE
    ELSE TRUE

\* One iteration of the loop of matchesConditions over an entry:
\* "false" (return false), "next" (fall through to the next entry) or
\* "throw" (reading a property of null raises a TypeError).
matchEntry(cond, m) ==
    IF ~Truthy(m) THEN "false"                   \* !eventValue[part]
    ELSE IF cond.kind = "null" THEN "throw"      \* typeof null === 'object'; null.exists
    ELSE IF cond.kind = "obj" THEN
        IF "exists" \in cond.ops /\ (Truthy(m) # cond.exV) THEN "false"
        ELSE IF "equals" \in cond.ops /\ m.val # cond.eqV THEN "false"
        ELSE IF "gt" \in cond.ops /\ JsLe(m.val, cond.gtV) THEN "false"
        ELSE IF "lt" \in cond.ops /\ JsGe(m.val, cond.ltV) THEN "false"
        ELSE "next"
    ELSE IF m.val # cond.lit THEN "false"
    ELSE "next"

RECURSIVE matchFrom(_, _, _)
matchFrom(conds, i, m) ==
    IF i > Len(conds) THEN "true"
    ELSE LET r == matchEntry(conds[i], m[conds[i].key])
         IN  IF r = "next" THEN matchFrom(conds, i + 1, m) ELSE r

\* campaignSchema.methods.matchesConditions: "true", "false" or "throw"
matchesConditions(c, ev) ==
    IF Len(c.conditions) = 0 THEN "true"
    ELSE matchFrom(c.conditions, 1, ev.meta)

\* A campaign document (analytics are kept in the variable `analytics`).
CampaignDoc(st, trig, dl, conds, aud, excl, sd, ed, tpl) ==
    [name |-> "n0", status |-> st, triggerEvent |-> trig, delay |-> dl, conditions |-> conds,
     audience |-> aud, excludedAudience |-> excl, startDate |-> sd,
     endDate |-> ed, templateId |-> tpl]

\* The campaign documents a behaviour may start with.
CampaignCatalogue ==
    { CampaignDoc("active", "view", 1, <<>>, {}, {}, 0, NoDate, "tpl"),
      CampaignDoc("active", "view", 0, <<>>, {}, {}, 0, NoDate, "gone"),
      CampaignDoc("active", "view", 0, <<CondExists(FALSE)>>, {}, {}, 0, NoDate, "tpl"),
      CampaignDoc("active", "view", 0, <<CondNull>>, {}, {}, 0, NoDate, "tpl"),
      CampaignDoc("active", "view", 0, <<CondGt(0)>>, {"u1"}, {}, 0, 0, "tpl"),
      CampaignDoc("active", "view", 1, <<CondLit(Num(1))>>, {}, {"u2"}, 0, NoDate, "tpl"),
      CampaignDoc("active", "view", 0, <<>>, {"u1", "u2"}, {"u2"}, 0, NoDate, "tpl"),
      CampaignDoc("paused", "view", 0, <<>>, {}, {}, 0, NoDate, "tpl"),
      CampaignDoc("active", "cart", 0, <<>>, {}, {}, 0, NoDate, "tpl") }

\* The documents the second campaign may start with: a plain one, one whose
\* template was deleted and one with a null condition operand.
SiblingCatalogue ==
    { d \in CampaignCatalogue :
        /\ d.status = "active" /\ d.triggerEvent = "view" /\ d.audience = {}
        /\ d.excludedAudience = {}
        /\ \/ d.conditions = <<>>
           \/ d.conditions = <<CondNull>> }

\* The (userId, metadata) pairs of the events a behaviour ingests.
EventCatalogue ==
    { <<"u1", MetaK(MetaAbsent)>>, <<"u1", MetaK(MetaVal(Num(0)))>>,
      <<"u1", MetaK(MetaVal(Num(1)))>>, <<"u2", MetaK(MetaVal(Num(1)))>>,
      <<"u9", MetaK(MetaVal(Num(1)))>> }

\* ------------------------------------------------------------------- state
VARIABLES
    now,        \* the wall clock
    campaigns,  \* Campaign collection: id -> document
    analytics,  \* Campaign.analytics: id -> counters
    events,     \* Event collection, in insertion order
    emails,     \* Email (Delivery) collection, in insertion order
    dispatch,   \* per event: the setTimeout task started by trackEvent
    sweep,      \* per sweeper: a run of processUnprocessedEvents
    worker,     \* per worker: a run of processScheduledEmails
    hit,        \* per request: a call of trackEmailOpen / trackEmailClick
    faults      \* faults still to be injected

vars == <<now, campaigns, analytics, events, emails, dispatch, sweep, worker, hit, faults>>

ZeroAnalytics == [sent |-> 0, opened |-> 0, clicked |-> 0, bounced |-> 0,
                  unsubscribed |-> 0, complained |-> 0]

\* mutant of IncCounter: the counter is written from a value computed by
\* the caller, who saw it at zero
IncCounterSet(c, f) == [analytics EXCEPT ![c][f] = 1]

\* Campaign.findByIdAndUpdate(c, {$inc: {'analytics.<f>': 1}}): one atomic
\* update of the stored counter
IncCounter(c, f) == [analytics EXCEPT ![c][f] = @ + 1]

\* ------------------------------------------------ processEvent as a task
\* pc: "idle"      no call in progress
\*     "find"      before Campaign.find / User.findById
\*     "loop"      at the head of the for loop, candidate i
\*     "compose"   after addTriggeredCampaign, before scheduleEmail
\*     "finalize"  before Event.findByIdAndUpdate(processed: true)
\*     "done"      returned; "threw": rejected; "lost": never ran
\* ev: index of the event; cands: result of Campaign.find;
\* evald: candidates the loop has reached; failed: candidates whose
\* try block ended in the catch; stage: where a rejection was raised;
\* response: what trackEvent answered to the request that started the
\* task ("none" for a task of the sweep).
IdleTask == [pc |-> "idle", ev |-> 0, cands |-> <<>>, i |-> 0,
             userFound |-> FALSE, triggered |-> <<>>, evald |-> {},
             failed |-> {}, stage |-> "none", response |-> "none"]

StartTask(e) == [IdleTask EXCEPT !.pc = "find", !.ev = e]

\* Campaign.find({triggerEvent, status: 'active'}) in natural order
RECURSIVE FindCampaigns(_, _)
FindCampaigns(i, type) ==
    IF i > Len(Campaigns) THEN <<>>
    ELSE LET c == Campaigns[i]
             rest == FindCampaigns(i + 1, type)
         IN  IF campaigns[c].triggerEvent = type /\ campaigns[c].status = "active"
             THEN <<c>> \o rest ELSE rest

\* the position after candidate i of the loop
AfterCandidate(t) ==
    IF t.i < Len(t.cands) THEN [t EXCEPT !.pc = "loop", !.i = t.i + 1]
    ELSE [t EXCEPT !.pc = "finalize"]

\* mutant of CatchCandidate: the catch block rethrows
CatchCandidateRethrow(t, c) ==
    [t EXCEPT !.failed = @ \cup {c}, !.pc = "threw", !.stage = "compose"]

\* processEvent, lines 196-198: the catch of the try block of candidate c
\* logs the error; the loop goes on
CatchCandidate(t, c) == AfterCandidate([t EXCEPT !.failed = @ \cup {c}])

\* The call of processEvent made for dispatch task e (e # 0) or by sweeper s
\* continues as t2.
SetTask(e, s, t2) ==
    IF e # 0
    THEN dispatch' = [dispatch EXCEPT ![e] = t2] /\ UNCHANGED sweep
    ELSE sweep' = [sweep EXCEPT ![s].task = t2] /\ UNCHANGED dispatch

\* processEvent, lines 138-156: the two lookups and the early exits
PEFind(t, e, s) ==
    /\ t.pc = "find"
    /\ \/ /\ faults > 0
          /\ faults' = faults - 1
          /\ SetTask(e, s, [t EXCEPT !.pc = "threw", !.stage = "find"])
          /\ UNCHANGED <<events, emails>>
       \/ /\ LET ev == events[t.ev]
                 cs == FindCampaigns(1, ev.eventType)
                 found == ev.userId \in Users
             IN  SetTask(e, s, [t EXCEPT !.cands = cs, !.userFound = found, !.i = 1,
                               !.pc = IF Len(cs) = 0 \/ ~found THEN "finalize" ELSE "loop"])
          /\ events' = [events EXCEPT ![t.ev].runs = IF @ = "never" THEN "once" ELSE "again"]
          /\ UNCHANGED <<emails, faults>>

\* Event.triggeredCampaigns entry written by addTriggeredCampaign
TriggeredEntry(c, when) == [campaignId |-> c, status |-> "scheduled", scheduledFor |-> when]

addTriggeredCampaignOverwriting(doc, c, when) ==
    [doc EXCEPT !.triggeredCampaigns = <<TriggeredEntry(c, when)>>]

\* eventSchema.methods.addTriggeredCampaign: push one entry and save(); the
\* save of a pushed array element is sent as a $push, so the stored list
\* grows at its end whatever copy of the event the caller holds
addTriggeredCampaign(doc, c, when) ==
    [doc EXCEPT !.triggeredCampaigns = Append(@, TriggeredEntry(c, when))]

\* processEvent, lines 161-190: the three filters of one candidate and,
\* for a match, event.addTriggeredCampaign(...) with its save()
PELoop(t, e, s) ==
    /\ t.pc = "loop"
    /\ LET c == t.cands[t.i]
           doc == campaigns[c]
           ev == events[t.ev]
           t1 == [t EXCEPT !.evald = @ \cup {c}]
           m == matchesConditions(doc, ev)
           scheduledTime == ev.timestamp + doc.delay
       IN  IF ~isDateActive(doc, now) \/ ~shouldSendToUser(doc, ev.userId) \/ m = "false"
           THEN /\ SetTask(e, s, AfterCandidate(t1))
                /\ UNCHANGED <<events, emails, faults>>
           ELSE IF m = "throw"
           THEN /\ SetTask(e, s, [t1 EXCEPT !.pc = "threw", !.stage = "filter"])
                /\ UNCHANGED <<events, emails, faults>>
           ELSE LET t2 == [t1 EXCEPT !.triggered = Append(@, c)]
                IN  \/ /\ Len(ev.triggeredCampaigns) < MaxTriggered
                       /\ events' = [events EXCEPT ![t.ev] =
                                         addTriggeredCampaign(@, c, scheduledTime)]
                       /\ SetTask(e, s, [t2 EXCEPT !.pc = "compose"])
                       /\ UNCHANGED <<emails, faults>>
                    \/ \* save() rejects: caught at line 196
                       /\ faults > 0 \/ Len(ev.triggeredCampaigns) >= MaxTriggered
                       /\ faults' = IF Len(ev.triggeredCampaigns) >= MaxTriggered
                                    THEN faults ELSE faults - 1
                       /\ SetTask(e, s, CatchCandidate(t2, c))
                       /\ UNCHANGED <<events, emails>>

\* ------------------------------------------------- the HTML of an email
\* The value of an href attribute: a literal URL (n tells URLs apart), an
\* in-page fragment "#...", a "mailto:" target, the empty string, or the
\* click-redirect URL `${base}/track/click/${trackingId}/${n - 1}` of the
\* email the body belongs to (indices are counted from 1 here, from 0 in
\* the code).
Url(n) == [kind |-> "url", n |-> n]
Fragment == [kind |-> "#", n |-> 0]
Mailto == [kind |-> "mailto", n |-> 0]
EmptyHref == [kind |-> "empty", n |-> 0]
Track(index) == [kind |-> "track", n |-> index]

\* An HTML body is the sequence of its elements that carry an href
\* attribute: tag "a" for <a ... href=...>, "link" for any other element;
\* quote "dq" for href="..." and "sq" for href='...'.
Anchor(quote, href) == [tag |-> "a", quote |-> quote, href |-> href]
OtherTag(quote, href) == [tag |-> "link", quote |-> quote, href |-> href]

\* mutant of Trackable: no href is skipped
TrackableAll(href) == TRUE

\* addTracking, line 588: the hrefs that get a tracking link
Trackable(href) == href.kind \notin {"empty", "#", "mailto"}

\* mutant of FirstOccurrence: the last occurrence is the one replaced
LastOccurrence(trackedHtml, href) ==
    LET at == {p \in DOMAIN trackedHtml :
                  trackedHtml[p].quote = "dq" /\ trackedHtml[p].href = href}
    IN  IF at = {} THEN 0 ELSE CHOOSE p \in at : \A q \in at : q <= p

\* String.prototype.replace with a string pattern (lines 596-599): the
\* position of the first occurrence of href="<href>" in the text, in
\* whatever element; 0 when there is none
FirstOccurrence(trackedHtml, href) ==
    LET at == {p \in DOMAIN trackedHtml :
                  trackedHtml[p].quote = "dq" /\ trackedHtml[p].href = href}
    IN  IF at = {} THEN 0 ELSE CHOOSE p \in at : \A q \in at : p <= q

\* addTracking, lines 586-603: the loop over the matches of linkRegex in
\* the original html, from element i on
RECURSIVE addTrackingFrom(_, _, _, _)
addTrackingFrom(html, i, trackedHtml, links) ==
    IF i > Len(html) THEN [html |-> trackedHtml, links |-> links]
    ELSE IF html[i].tag = "a" /\ Trackable(html[i].href)
    THEN LET originalUrl == html[i].href
             index == Len(links) + 1
             pos == FirstOccurrence(trackedHtml, originalUrl)
             replaced == IF pos = 0 THEN trackedHtml
                         ELSE [trackedHtml EXCEPT ![pos].href = Track(index)]
         IN  addTrackingFrom(html, i + 1, replaced,
                             Append(links, [original |-> originalUrl, tracking |-> Track(index)]))
    ELSE addTrackingFrom(html, i + 1, trackedHtml, links)

\* addTracking(html, trackingId, trackingBaseUrl); the tracking pixel
\* appended at line 577 carries no href and is the bodyTrackingId of the
\* email
addTracking(html) == addTrackingFrom(html, 1, html, <<>>)

\* Template collection: id -> body.  "tpl" has LinksPerEmail anchors to
\* different URLs; the others repeat a URL, quote it with ', put it into
\* another element, or use hrefs that are not tracked.
TemplateCatalogue ==
    [tpl |-> [k \in 1..LinksPerEmail |-> Anchor("dq", Url(k))],
     bare |-> <<>>,
     twins |-> <<Anchor("dq", Url(1)), Anchor("dq", Url(1))>>,
     apart |-> <<Anchor("dq", Url(1)), Anchor("dq", Url(2)), Anchor("dq", Url(1))>>,
     triplets |-> <<Anchor("dq", Url(1)), Anchor("dq", Url(1)), Anchor("dq", Url(1))>>,
     single |-> <<Anchor("sq", Url(1)), Anchor("sq", Url(1))>>,
     mixed |-> <<Anchor("sq", Url(1)), Anchor("dq", Url(1))>>,
     linked |-> <<OtherTag("dq", Url(1)), Anchor("dq", Url(1)), Anchor("dq", Url(1))>>,
     skipped |-> <<Anchor("dq", Fragment), Anchor("dq", Mailto), Anchor("dq", EmptyHref),
                  Anchor("dq", Url(1)), Anchor("dq", Url(1))>>]

Templates == DOMAIN TemplateCatalogue   \* template documents that exist

\* ---------------------------------------------------- template rendering
\* A text is the sequence of its pieces: a placeholder {{key}} (ws: with
\* whitespace inside the braces) or a run of other characters s.
Hole(key, ws) == [t |-> "hole", key |-> key, ws |-> ws, s |-> ""]
Text(s) == [t |-> "text", key |-> "", ws |-> FALSE, s |-> s]

\* The characters of a value as a text.  The strings in use are the empty
\* string, one placeholder, or a run of characters without braces.
Pieces(v) ==
    CASE v.kind = "num" -> <<Text(ToString(v.n))>>
      [] v.kind = "undef" -> <<Text("undefined")>>
      [] v.s = "" -> <<>>
      [] v.s = "{{event_j}}" -> <<Hole("event_j", FALSE)>>
      [] v.s = "{{event_k}}" -> <<Hole("event_k", FALSE)>>
      [] OTHER -> <<Text(v.s)>>

\* String.prototype.replace with a replacement string: in the replacement
\* "$&" stands for the matched text and "$$" for "$"
RECURSIVE Replacement(_, _, _)
Replacement(pieces, i, matched) ==
    IF i > Len(pieces) THEN <<>>
    ELSE (IF pieces[i] = Text("$&") THEN <<matched>>
          ELSE IF pieces[i] = Text("$$") THEN <<Text("$")>>
          ELSE <<pieces[i]>>) \o Replacement(pieces, i + 1, matched)

\* rendered.replace(new RegExp(`{{\\s*${key}\\s*}}`, 'g'), value), line 561:
\* every placeholder of the key, from piece p on
RECURSIVE ReplaceAll(_, _, _, _)
ReplaceAll(rendered, p, key, value) ==
    IF p > Len(rendered) THEN <<>>
    ELSE (IF rendered[p].t = "hole" /\ rendered[p].key = key
          THEN Replacement(Pieces(value), 1, rendered[p])
          ELSE <<rendered[p]>>) \o ReplaceAll(rendered, p + 1, key, value)

\* renderTemplate, lines 559-562: the entries of variables one after the
\* other, each on the result of the one before (`rendered = rendered.replace`:
\* the result is a value, bound as `replaced`, before the next entry is used)
RECURSIVE renderFrom(_, _, _)
renderFrom(rendered, variables, i) ==
    IF i > Len(variables) THEN rendered
    ELSE CHOOSE result \in
             { renderFrom(replaced, variables, i + 1) :
                 replaced \in {ReplaceAll(rendered, 1, variables[i].key, variables[i].value)} } :
             TRUE

\* renderTemplate(template, variables)
renderTemplate(template, variables) == renderFrom(template, variables, 1)

\* the keys of Event.metadata in insertion order
MetaKeyOrder == <<"k", "j">>

\* scheduleEmail, lines 246-252: event_<key> for the metadata keys present
RECURSIVE EventVariables(_, _)
EventVariables(meta, i) ==
    IF i > Len(MetaKeyOrder) THEN <<>>
    ELSE (IF meta[MetaKeyOrder[i]].has
          THEN <<[key |-> "event_" \o MetaKeyOrder[i], value |-> meta[MetaKeyOrder[i]].val]>>
          ELSE <<>>) \o EventVariables(meta, i + 1)

\* scheduleEmail, lines 229-252: the variable context in the order of
\* Object.entries
Variables(ev) ==
    << [key |-> "user_name", value |-> Str("Ada")],
       [key |-> "user_email", value |-> Str("ada@x.test")],
       [key |-> "company_name", value |-> Str("")],
       [key |-> "unsubscribe_link", value |-> Str("/api/unsubscribe/" \o ev.userId)] >>
    \o EventVariables(ev.meta, 1)

\* Template.subject of the templates of the catalogue
SubjectCatalogue ==
    [tpl |-> <<Text("Hello "), Hole("user_name", FALSE)>>,
     bare |-> <<Hole("missing", FALSE)>>,
     twins |-> <<Hole("event_k", TRUE), Text(" and "), Hole("event_k", FALSE)>>,
     apart |-> <<Hole("event_k", FALSE), Hole("event_j", FALSE)>>,
     triplets |-> <<Hole("event_j", TRUE), Text(" for "), Hole("user_name", TRUE)>>,
     single |-> <<Text("News")>>,
     mixed |-> <<Hole("company_name", FALSE), Text(": "), Hole("event_k", FALSE)>>,
     linked |-> <<Hole("missing", TRUE), Hole("event_k", FALSE)>>,
     skipped |-> <<>>]

\* A trackingId.  src "hook": made by the pre-save hook of the Email schema
\* from a fresh ObjectId (e: its serial number) and Date.now() in base 36;
\* src "body": made by scheduleEmail as `${campaign._id}-${event._id}-${Date.now()}`;
\* src "none": no trackingId.  Two identifiers are the same string exactly
\* when they are the same record.
NoTracking == [src |-> "none", c |-> "none", e |-> 0, t |-> 0]

\* emailSchema.pre('save'): the trackingId given to a document saved without one
HookTrackingId(serial, at) == [src |-> "hook", c |-> "none", e |-> serial, t |-> at]

\* scheduleEmail, line 263: the trackingId handed to addTracking
BodyTrackingId(c, e, at) == [src |-> "body", c |-> c, e |-> e, t |-> at]

\* The Email document created by scheduleEmail (lines 258-288) from the HTML
\* template and saved as the serial-th document at time `at`.
\* bodyTrackingId is the identifier that addTracking wrote into the pixel
\* and the click URLs of body and links[].tracking; trackingId is the stored
\* field, absent from the constructor call and filled in by the pre-save
\* hook; subject is the rendered Template.subject; body and links are what
\* addTracking made of the template's body;
\* clicks is links[i].clicks and lastClickedAt links[i].lastClickedAt;
\* sends counts the calls of the Email
\* Transport for this document and outcome is the answer to the last one.
NewEmail(c, e, ev, when, templateId, serial, at) ==
    [campaignId |-> c, eventId |-> e, userId |-> ev.userId, status |-> "scheduled",
     scheduledFor |-> when, sentAt |-> NoDate, openedAt |-> NoDate,
     clickedAt |-> NoDate,
     templateId |-> templateId,
     subject |-> renderTemplate(SubjectCatalogue[templateId], Variables(ev)),
     body |-> addTracking(TemplateCatalogue[templateId]).html,
     links |-> addTracking(TemplateCatalogue[templateId]).links,
     clicks |-> [k \in DOMAIN addTracking(TemplateCatalogue[templateId]).links |-> 0],
     lastClickedAt |-> [k \in DOMAIN addTracking(TemplateCatalogue[templateId]).links |-> NoDate],
     errorMessage |-> FALSE, messageId |-> FALSE,
     trackingId |-> HookTrackingId(serial, at),
     bodyTrackingId |-> BodyTrackingId(c, e, at),
     sends |-> 0, outcome |-> "none"]

\* processEvent line 193 with scheduleEmail, lines 219-297
PECompose(t, e, s) ==
    /\ t.pc = "compose"
    /\ LET c == t.cands[t.i]
           doc == campaigns[c]
           ev == events[t.ev]
           scheduledTime == ev.timestamp + doc.delay
       IN  IF doc.templateId \notin Templates
           THEN \* template missing: thrown at 225, caught at 196
                /\ SetTask(e, s, CatchCandidate(t, c))
                /\ UNCHANGED <<events, emails, faults>>
           ELSE \/ /\ Len(emails) < MaxEmails
                   /\ emails' = Append(emails, NewEmail(c, t.ev, ev, scheduledTime, doc.templateId,
                                                     Len(emails) + 1, now))
                   /\ SetTask(e, s, AfterCandidate(t))
                   /\ UNCHANGED <<events, faults>>
                \/ \* email.save() rejects: caught at line 196
                   /\ faults > 0 \/ Len(emails) >= MaxEmails
                   /\ faults' = IF Len(emails) >= MaxEmails THEN faults ELSE faults - 1
                   /\ SetTask(e, s, CatchCandidate(t, c))
                   /\ UNCHANGED <<events, emails>>

\* processEvent lines 146, 154, 202: Event.findByIdAndUpdate(processed: true)
PEFinalize(t, e, s) ==
    /\ t.pc = "finalize"
    /\ \/ /\ events' = [events EXCEPT ![t.ev].processed = TRUE]
          /\ SetTask(e, s, [t EXCEPT !.pc = "done"])
          /\ UNCHANGED <<emails, faults>>
       \/ /\ faults > 0
          /\ faults' = faults - 1
          /\ SetTask(e, s, [t EXCEPT !.pc = "threw", !.stage = "finalize"])
          /\ UNCHANGED <<events, emails>>

\* ----------------------------------------------------------- ingestion
\* Event document created by trackEvent; runs records how often
\* processEvent was entered for it ("never", "once", "again").
NewEvent(userId, eventType, meta) ==
    [userId |-> userId, eventType |-> eventType, timestamp |-> now, meta |-> meta,
     processed |-> FALSE, triggeredCampaigns |-> <<>>, runs |-> "never"]

EventTypes == {"view"}

\* mutant of Respond201: the answer waits for the background task
RespondLater(t) == t

\* trackEvent, lines 497-503: res.status(201), sent right after the timer
\* is set
Respond201(t) == [t EXCEPT !.response = "created"]

\* trackEvent: persist the event, then start the background task
TrackEvent(userId, eventType, meta) ==
    /\ Len(events) < MaxEvents
    /\ events' = Append(events, NewEvent(userId, eventType, meta))
    /\ dispatch' = [dispatch EXCEPT ![Len(events) + 1] =
                        Respond201(StartTask(Len(events) + 1))]
    /\ UNCHANGED <<now, campaigns, analytics, emails, sweep, worker, hit, faults>>

DispatchFind(e) ==
    /\ PEFind(dispatch[e], e, "none")
    /\ UNCHANGED <<now, campaigns, analytics, worker, hit>>

DispatchLoop(e) ==
    /\ PELoop(dispatch[e], e, "none")
    /\ UNCHANGED <<now, campaigns, analytics, worker, hit>>

DispatchCompose(e) ==
    /\ PECompose(dispatch[e], e, "none")
    /\ UNCHANGED <<now, campaigns, analytics, worker, hit>>

DispatchFinalize(e) ==
    /\ PEFinalize(dispatch[e], e, "none")
    /\ UNCHANGED <<now, campaigns, analytics, worker, hit>>

\* The process stops before the timer callback of trackEvent runs.
DispatchLost(e) ==
    /\ dispatch[e].pc = "find"
    /\ faults > 0
    /\ faults' = faults - 1
    /\ dispatch' = [dispatch EXCEPT ![e].pc = "lost"]
    /\ UNCHANGED <<now, campaigns, analytics, events, emails, sweep, worker, hit>>

\* ------------------------------------------------------------ event sweep
\* pc: "idle" / "run"; batch: the events found; k: position in the batch;
\* task: the processEvent call in progress; skipped: the events that had
\* processed = true when the batch was read.
IdleSweep == [pc |-> "idle", batch |-> <<>>, k |-> 0, task |-> IdleTask,
              processedCount |-> 0, skipped |-> {}]

\* the events that have processed = true
AlreadyProcessed == {e \in DOMAIN events : events[e].processed}

\* mutant of Unprocessed: the query drops the filter on processed
UnprocessedUnfiltered == DOMAIN events

\* the events matching {processed: false}
Unprocessed == {e \in DOMAIN events : ~events[e].processed}

\* Event.find({processed: false}).sort({timestamp: 1}).limit(batchSize):
\* the possible results (events with equal timestamps come in any order)
SweepBatches(batchSize) ==
    LET n == Min(Cardinality(Unprocessed), batchSize)
    IN  { q \in [1..n -> Unprocessed] :
            /\ \A a, b \in 1..n : a < b => q[a] # q[b] /\ events[q[a]].timestamp <= events[q[b]].timestamp
            /\ \A e \in Unprocessed \ {q[a] : a \in 1..n} :
                 \A a \in 1..n : events[q[a]].timestamp <= events[e].timestamp }

\* processUnprocessedEvents, lines 369-380
SweepStart(s) ==
    /\ sweep[s].pc = "idle"
    /\ \/ /\ faults > 0
          /\ faults' = faults - 1
          /\ UNCHANGED sweep
       \/ /\ Unprocessed = {}
          /\ sweep' = [sweep EXCEPT ![s] = [IdleSweep EXCEPT !.skipped = AlreadyProcessed]]
          /\ UNCHANGED faults
       \/ /\ Unprocessed # {}
          /\ \E q \in SweepBatches(EventBatchSize) :
               sweep' = [sweep EXCEPT ![s] =
                   [pc |-> "run", batch |-> q, k |-> 1, task |-> StartTask(q[1]),
                    processedCount |-> 0, skipped |-> AlreadyProcessed]]
          /\ UNCHANGED faults
    /\ UNCHANGED <<now, campaigns, analytics, events, emails, dispatch, worker, hit>>

SweepFind(s) ==
    /\ PEFind(sweep[s].task, 0, s)
    /\ UNCHANGED <<now, campaigns, analytics, worker, hit>>

SweepLoop(s) ==
    /\ PELoop(sweep[s].task, 0, s)
    /\ UNCHANGED <<now, campaigns, analytics, worker, hit>>

SweepCompose(s) ==
    /\ PECompose(sweep[s].task, 0, s)
    /\ UNCHANGED <<now, campaigns, analytics, worker, hit>>

SweepFinalize(s) ==
    /\ PEFinalize(sweep[s].task, 0, s)
    /\ UNCHANGED <<now, campaigns, analytics, worker, hit>>

\* processUnprocessedEvents, lines 382-391: processEvent returned or
\* rejected; count it, take the next event or return
SweepAdvance(s) ==
    /\ sweep[s].pc = "run"
    /\ sweep[s].task.pc \in {"done", "threw"}
    /\ LET r == sweep[s]
           cnt == IF r.task.pc = "done" THEN r.processedCount + 1 ELSE r.processedCount
       IN  sweep' = [sweep EXCEPT ![s] =
               IF r.k < Len(r.batch)
               THEN [r EXCEPT !.k = r.k + 1, !.task = StartTask(r.batch[r.k + 1]),
                              !.processedCount = cnt]
               ELSE [IdleSweep EXCEPT !.skipped = r.skipped]]
    /\ UNCHANGED <<now, campaigns, analytics, events, emails, dispatch, worker, hit, faults>>

\* ------------------------------------------------------------------ clock
Tick ==
    /\ now < MaxTime
    /\ now' = now + 1
    /\ UNCHANGED <<campaigns, analytics, events, emails, dispatch, sweep, worker, hit, faults>>

\* ------------------------------------------------------- delivery worker
\* pc: "idle"; "claim" before the save of status 'sending'; "send" before
\* emailService.sendEmail; "markSent" / "incSent" on the success path;
\* "markFailed" / "incBounced" in the catch block.
\* batchSize: the argument of the run; batch: ids of the emails found;
\* k: position; accepted: calls of the Email Transport that returned during
\* the run; result: the value returned by the last run (NoDate before any);
\* aborted: the last run rejected; left: the emails of its batch that it
\* had not reached when it rejected.
IdleWorker == [pc |-> "idle", batchSize |-> 0, batch |-> <<>>, k |-> 0, sentCount |-> 0,
               accepted |-> 0, result |-> NoDate, aborted |-> FALSE, left |-> 0]

\* a rejection inside the for loop leaves processScheduledEmails (line 358)
WorkerAbort(r) == [IdleWorker EXCEPT !.aborted = TRUE, !.left = Len(r.batch) - r.k]

\* mutant of NotAfter: Deliveries of the coming second are taken as well
NotAfterNextSecond(scheduledFor, t) == scheduledFor <= t + 1

\* findPendingEmails: scheduledFor: { $lte: now }
NotAfter(scheduledFor, t) == scheduledFor <= t

\* mutant of Pending: the filter on scheduledFor is dropped
PendingIgnoringTime == {i \in DOMAIN emails : emails[i].status = "scheduled"}

\* the filter of findPendingEmails: {status: 'scheduled', scheduledFor: {$lte: now}}
Pending ==
    {i \in DOMAIN emails : emails[i].status = "scheduled" /\ NotAfter(emails[i].scheduledFor, now)}

\* .sort({scheduledFor: 1}).limit(limit) over the documents S: the possible
\* results, built front to back; documents with the same scheduledFor come
\* in any order
RECURSIVE SortLimit(_, _)
SortLimit(S, limit) ==
    IF S = {} \/ limit = 0 THEN {<<>>}
    ELSE LET first == {i \in S : \A j \in S : emails[i].scheduledFor <= emails[j].scheduledFor}
         IN  UNION { {<<i>> \o q : q \in SortLimit(S \ {i}, limit - 1)} : i \in first }

\* emailSchema.statics.findPendingEmails: the possible results
findPendingEmails(limit) == SortLimit(Pending, limit)

\* processScheduledEmails(batchSize), lines 304-313
WorkerStart(w, batchSize) ==
    /\ worker[w].pc = "idle"
    /\ \/ /\ faults > 0
          /\ faults' = faults - 1
          /\ worker' = [worker EXCEPT ![w] = [IdleWorker EXCEPT !.aborted = TRUE]]
       \/ /\ Pending = {}
          /\ worker' = [worker EXCEPT ![w] = [IdleWorker EXCEPT !.result = 0]]
          /\ UNCHANGED faults
       \/ /\ Pending # {}
          /\ \E q \in findPendingEmails(batchSize) :
               worker' = [worker EXCEPT ![w] =
                   [IdleWorker EXCEPT !.pc = "claim", !.batchSize = batchSize,
                                      !.batch = q, !.k = 1]]
          /\ UNCHANGED faults
    /\ UNCHANGED <<now, campaigns, analytics, events, emails, dispatch, sweep, hit>>

\* the worker after the email at position k: next email, or return sentCount
WorkerAfter(r) ==
    IF r.k < Len(r.batch) THEN [r EXCEPT !.pc = "claim", !.k = r.k + 1]
    ELSE [IdleWorker EXCEPT !.result = r.sentCount, !.accepted = r.accepted]

\* lines 317-319: email.status = 'sending'; await email.save()
WorkerClaim(w) ==
    /\ worker[w].pc = "claim"
    /\ LET id == worker[w].batch[worker[w].k]
       IN  \/ /\ emails' = [emails EXCEPT ![id].status = "sending"]
              /\ worker' = [worker EXCEPT ![w].pc = "send"]
              /\ UNCHANGED faults
           \/ /\ faults > 0
              /\ faults' = faults - 1
              /\ worker' = [worker EXCEPT ![w].pc = "markFailed"]
              /\ UNCHANGED emails
    /\ UNCHANGED <<now, campaigns, analytics, events, dispatch, sweep, hit>>

\* lines 321-328: emailService.sendEmail; the transport accepts or raises
WorkerSend(w) ==
    /\ worker[w].pc = "send"
    /\ LET id == worker[w].batch[worker[w].k]
       IN  \E ok \in BOOLEAN :
             /\ emails' = [emails EXCEPT ![id].sends = @ + 1,
                                         ![id].outcome = IF ok THEN "accepted" ELSE "raised"]
             /\ worker' = [worker EXCEPT ![w].pc = IF ok THEN "markSent" ELSE "markFailed",
                                         ![w].accepted = IF ok THEN @ + 1 ELSE @]
    /\ UNCHANGED <<now, campaigns, analytics, events, dispatch, sweep, hit, faults>>

\* lines 331-334: email.updateStatus('sent', {sentAt, messageId})
WorkerMarkSent(w) ==
    /\ worker[w].pc = "markSent"
    /\ LET id == worker[w].batch[worker[w].k]
       IN  \/ /\ emails' = [emails EXCEPT ![id].status = "sent", ![id].sentAt = now,
                                          ![id].messageId = TRUE]
              /\ worker' = [worker EXCEPT ![w].pc = "incSent"]
              /\ UNCHANGED faults
           \/ /\ faults > 0
              /\ faults' = faults - 1
              /\ worker' = [worker EXCEPT ![w].pc = "markFailed"]
              /\ UNCHANGED emails
    /\ UNCHANGED <<now, campaigns, analytics, events, dispatch, sweep, hit>>

\* lines 337-341: $inc analytics.sent; sentCount++
WorkerIncSent(w) ==
    /\ worker[w].pc = "incSent"
    /\ LET id == worker[w].batch[worker[w].k]
           c == emails[id].campaignId
       IN  \/ /\ analytics' = IncCounter(c, "sent")
              /\ worker' = [worker EXCEPT ![w] =
                     WorkerAfter([worker[w] EXCEPT !.sentCount = @ + 1])]
              /\ UNCHANGED faults
           \/ /\ faults > 0
              /\ faults' = faults - 1
              /\ worker' = [worker EXCEPT ![w].pc = "markFailed"]
              /\ UNCHANGED analytics
    /\ UNCHANGED <<now, campaigns, events, emails, dispatch, sweep, hit>>

\* lines 346-348: email.updateStatus('failed', {errorMessage}); a rejection
\* here leaves the catch block and rejects the whole run (line 358)
WorkerMarkFailed(w) ==
    /\ worker[w].pc = "markFailed"
    /\ LET id == worker[w].batch[worker[w].k]
       IN  \/ /\ emails' = [emails EXCEPT ![id].status = "failed", ![id].errorMessage = TRUE]
              /\ worker' = [worker EXCEPT ![w].pc = "incBounced"]
              /\ UNCHANGED faults
           \/ /\ faults > 0
              /\ faults' = faults - 1
              /\ worker' = [worker EXCEPT ![w] = WorkerAbort(@)]
              /\ UNCHANGED emails
    /\ UNCHANGED <<now, campaigns, analytics, events, dispatch, sweep, hit>>

\* lines 351-353: $inc analytics.bounced
WorkerIncBounced(w) ==
    /\ worker[w].pc = "incBounced"
    /\ LET id == worker[w].batch[worker[w].k]
           c == emails[id].campaignId
       IN  \/ /\ analytics' = IncCounter(c, "bounced")
              /\ worker' = [worker EXCEPT ![w] = WorkerAfter(worker[w])]
              /\ UNCHANGED faults
           \/ /\ faults > 0
              /\ faults' = faults - 1
              /\ worker' = [worker EXCEPT ![w] = WorkerAbort(@)]
              /\ UNCHANGED analytics
    /\ UNCHANGED <<now, campaigns, events, emails, dispatch, sweep, hit>>

\* ------------------------------------------------------ tracking collector
\* A URL: none (null), the home page "/", or links[idx].original of an email
NoUrl == [kind |-> "none", email |-> 0, idx |-> 0]
DefaultUrl == [kind |-> "/", email |-> 0, idx |-> 0]
OriginalUrl(id, idx) == [kind |-> "original", email |-> id, idx |-> idx]

\* One request.  kind: "open" / "click"; tid: the trackingId of the request;
\* idx: the link
\* index; email: the document found (0: none); seen: its status as loaded;
\* status: the status of the private copy; clicks: links[idx].clicks of the
\* private copy; incd: $inc operations issued; url: result.url of the
\* service call; threw: the service call was rejected; response: what the
\* controller sent ("none", "pixel", "redirect", "error"); location: the
\* target of the redirect.
IdleHit == [pc |-> "idle", kind |-> "none", tid |-> NoTracking, idx |-> 0, email |-> 0,
            seen |-> "none", status |-> "none", clicks |-> 0, incd |-> 0,
            url |-> NoUrl, threw |-> FALSE, response |-> "none", location |-> NoUrl]

\* trackEmailClick (controller), lines 366-374: the service call returned
ClickRespond(r) ==
    [r EXCEPT !.pc = "done", !.response = "redirect",
              !.location = IF r.url = NoUrl THEN DefaultUrl ELSE r.url]

\* mutant of HitThrew: the controllers pass the error on to the caller
HitThrewSurfaced(r) == [r EXCEPT !.pc = "done", !.threw = TRUE, !.response = "error"]

\* The service call is rejected (server.js 422-425, 460-463).  The click
\* controller catches and redirects to the home page (375-379); the open
\* controller has answered already and its timer callback logs the error
\* (321-323).
HitThrew(r) ==
    IF r.kind = "click"
    THEN [r EXCEPT !.pc = "done", !.threw = TRUE, !.response = "redirect",
                   !.location = DefaultUrl]
    ELSE [r EXCEPT !.pc = "done", !.threw = TRUE]

\* Email.findOne({trackingId}): the id of the email found, 0 for none
findOne(tid) ==
    LET found == {i \in DOMAIN emails : emails[i].trackingId = tid}
    IN  IF found = {} THEN 0 ELSE CHOOSE i \in found : TRUE

\* The identifiers a request can carry: the ones written into the bodies of
\* the emails sent out and the ones the store holds.
PresentedIds ==
    {emails[i].bodyTrackingId : i \in DOMAIN emails} \cup {emails[i].trackingId : i \in DOMAIN emails}

\* mutant of updateStatus: a click also stamps the opening it implies
updateStatusCrediting(doc, status, at) ==
    CASE status = "opened" -> [doc EXCEPT !.status = status, !.openedAt = at]
      [] status = "clicked" -> [doc EXCEPT !.status = status, !.clickedAt = at,
                                           !.openedAt = IF @ = NoDate THEN at ELSE @]
      [] OTHER -> [doc EXCEPT !.status = status]

\* emailSchema.methods.updateStatus for the statuses of the tracking
\* endpoints: the status, the timestamp of that status and save() of the
\* modified paths
updateStatus(doc, status, at) ==
    CASE status = "opened" -> [doc EXCEPT !.status = status, !.openedAt = at]
      [] status = "clicked" -> [doc EXCEPT !.status = status, !.clickedAt = at]
      [] OTHER -> [doc EXCEPT !.status = status]

\* mutant of NotYetOpened: the status is not looked at
NotYetOpenedAlways(status) == TRUE

\* trackEmailOpen, line 413: if (email.status !== 'opened')
NotYetOpened(status) == status # "opened"

\* trackEmailOpen (controller), lines 310-333: answer with the transparent
\* GIF and leave the service call to a timer callback
OpenRequest(h, tid) ==
    /\ hit[h].pc = "idle"
    /\ hit' = [hit EXCEPT ![h] = [@ EXCEPT !.kind = "open", !.tid = tid,
                                           !.pc = "openFind", !.response = "pixel"]]
    /\ UNCHANGED <<now, campaigns, analytics, events, emails, dispatch, sweep, worker, faults>>

\* trackEmailOpen, lines 403-413
OpenFind(h) ==
    /\ hit[h].pc = "openFind"
    /\ LET r == hit[h]
           id == findOne(r.tid)
       IN  \/ /\ faults > 0
              /\ faults' = faults - 1
              /\ hit' = [hit EXCEPT ![h] = HitThrew(r)]
           \/ /\ UNCHANGED faults
              /\ hit' = [hit EXCEPT ![h] =
                    IF id = 0 THEN [r EXCEPT !.pc = "done"]
                    ELSE [r EXCEPT !.email = id, !.seen = emails[id].status,
                                   !.status = emails[id].status,
                                   !.pc = IF NotYetOpened(emails[id].status)
                                          THEN "openSave" ELSE "done"]]
    /\ UNCHANGED <<now, campaigns, analytics, events, emails, dispatch, sweep, worker>>

\* line 414: email.updateStatus('opened')
OpenSave(h) ==
    /\ hit[h].pc = "openSave"
    /\ LET id == hit[h].email
       IN  \/ /\ emails' = [emails EXCEPT ![id] = updateStatus(@, "opened", now)]
              /\ hit' = [hit EXCEPT ![h].pc = "openInc", ![h].status = "opened"]
              /\ UNCHANGED faults
           \/ /\ faults > 0
              /\ faults' = faults - 1
              /\ hit' = [hit EXCEPT ![h] = HitThrew(@)]
              /\ UNCHANGED emails
    /\ UNCHANGED <<now, campaigns, analytics, events, dispatch, sweep, worker>>

\* lines 417-422: $inc analytics.opened
OpenInc(h) ==
    /\ hit[h].pc = "openInc"
    /\ LET c == emails[hit[h].email].campaignId
       IN  \/ /\ analytics' = IncCounter(c, "opened")
              /\ hit' = [hit EXCEPT ![h].pc = "done", ![h].incd = @ + 1]
              /\ UNCHANGED faults
           \/ /\ faults > 0
              /\ faults' = faults - 1
              /\ hit' = [hit EXCEPT ![h] = HitThrew(@)]
              /\ UNCHANGED analytics
    /\ UNCHANGED <<now, campaigns, events, emails, dispatch, sweep, worker>>

\* trackEmailClick, lines 435-442, and the test of trackClick (line 396)
ClickFind(h, tid, idx) ==
    /\ hit[h].pc = "idle"
    /\ LET r == [hit[h] EXCEPT !.kind = "click", !.tid = tid, !.idx = idx]
           id == findOne(tid)
       IN  \/ /\ faults > 0
              /\ faults' = faults - 1
              /\ hit' = [hit EXCEPT ![h] = HitThrew(r)]
           \/ /\ UNCHANGED faults
              /\ hit' = [hit EXCEPT ![h] =
                    IF id = 0 THEN ClickRespond(r)      \* { url: null }
                    ELSE IF idx \in DOMAIN emails[id].clicks
                    THEN [r EXCEPT !.email = id, !.seen = emails[id].status,
                                   !.status = emails[id].status,
                                   !.clicks = emails[id].clicks[idx], !.pc = "clickSave"]
                    ELSE [r EXCEPT !.email = id, !.seen = emails[id].status,
                                   !.status = emails[id].status, !.pc = "clickInc"]]
    /\ UNCHANGED <<now, campaigns, analytics, events, emails, dispatch, sweep, worker>>

\* mutant of CountClick: only the click that changes the status is counted
CountClickOnce(doc, idx, clicks, at) ==
    IF doc.status = "clicked" THEN doc
    ELSE [doc EXCEPT !.clicks[idx] = clicks + 1, !.lastClickedAt[idx] = at]

\* emailSchema.methods.trackClick, lines 397-398: links[idx].clicks += 1 on
\* the copy loaded by the request (clicks: its count) and lastClickedAt
CountClick(doc, idx, clicks, at) ==
    [doc EXCEPT !.clicks[idx] = clicks + 1, !.lastClickedAt[idx] = at]

\* emailSchema.methods.trackClick, lines 397-401: count the click on the
\* private copy, updateStatus('clicked') and save()
ClickSave(h) ==
    /\ hit[h].pc = "clickSave"
    /\ LET id == hit[h].email
           idx == hit[h].idx
       IN  \/ /\ emails' = [emails EXCEPT ![id] =
                              updateStatus(CountClick(@, idx, hit[h].clicks, now),
                                           "clicked", now)]
              /\ hit' = [hit EXCEPT ![h].pc = "clickInc", ![h].status = "clicked",
                                    ![h].clicks = @ + 1]
              /\ UNCHANGED faults
           \/ /\ faults > 0
              /\ faults' = faults - 1
              /\ hit' = [hit EXCEPT ![h] = HitThrew(@)]
              /\ UNCHANGED emails
    /\ UNCHANGED <<now, campaigns, analytics, events, dispatch, sweep, worker>>

\* mutant of RedirectTarget: the first link, whatever the index
RedirectTargetFirst(id, idx) == OriginalUrl(id, 1)

\* trackEmailClick, lines 454-457: links[linkIndex].original, or "/"
RedirectTarget(id, idx) ==
    IF idx \in DOMAIN emails[id].clicks THEN OriginalUrl(id, idx) ELSE DefaultUrl

\* trackEmailClick, lines 447-459, and the controller's redirect: the
\* campaign counter and the redirect
ClickInc(h) ==
    /\ hit[h].pc = "clickInc"
    /\ LET id == hit[h].email
           c == emails[id].campaignId
           originalUrl == RedirectTarget(id, hit[h].idx)
       IN  IF hit[h].status # "clicked"
           THEN \/ /\ analytics' = IncCounter(c, "clicked")
                   /\ hit' = [hit EXCEPT ![h] = ClickRespond([hit[h] EXCEPT !.incd = @ + 1,
                                                                      !.url = originalUrl])]
                   /\ UNCHANGED faults
                \/ /\ faults > 0
                   /\ faults' = faults - 1
                   /\ hit' = [hit EXCEPT ![h] = HitThrew(@)]
                   /\ UNCHANGED analytics
           ELSE /\ hit' = [hit EXCEPT ![h] = ClickRespond([hit[h] EXCEPT !.url = originalUrl])]
                /\ UNCHANGED <<analytics, faults>>
    /\ UNCHANGED <<now, campaigns, events, emails, dispatch, sweep, worker>>

\* --------------------------------------------------- matcher specification
InitMatch ==
    /\ now = 0
    /\ \E d1 \in CampaignCatalogue, d2 \in SiblingCatalogue :
         campaigns = [c \in CampaignIds |-> IF c = Campaigns[1] THEN d1 ELSE d2]
    /\ analytics = [c \in CampaignIds |-> ZeroAnalytics]
    /\ events = <<>>
    /\ emails = <<>>
    /\ dispatch = [e \in 1..MaxEvents |-> IdleTask]
    /\ sweep = [s \in Sweepers |-> IdleSweep]
    /\ worker = [w \in Workers |-> IdleWorker]
    /\ hit = [h \in Hits |-> IdleHit]
    /\ faults = MaxFaults

NextMatch ==
    \/ \E x \in EventCatalogue, ty \in EventTypes : TrackEvent(x[1], ty, x[2])
    \/ \E e \in 1..MaxEvents : DispatchFind(e)
    \/ \E e \in 1..MaxEvents : DispatchLoop(e)
    \/ \E e \in 1..MaxEvents : DispatchCompose(e)
    \/ \E e \in 1..MaxEvents : DispatchFinalize(e)
    \/ \E e \in 1..MaxEvents : DispatchLost(e)
    \/ \E s \in Sweepers : SweepStart(s)
    \/ \E s \in Sweepers : SweepFind(s)
    \/ \E s \in Sweepers : SweepLoop(s)
    \/ \E s \in Sweepers : SweepCompose(s)
    \/ \E s \in Sweepers : SweepFinalize(s)
    \/ \E s \in Sweepers : SweepAdvance(s)
    \/ Tick

SpecMatch == InitMatch /\ [][NextMatch]_vars

\* ---------------------------------------------------- worker specification
\* The store after one event of user u1 was matched at time 0 by both
\* campaigns: c1 (no delay) and c2 (delay 1).
SeedCampaigns ==
    [c \in CampaignIds |->
        IF c = Campaigns[1]
        THEN CampaignDoc("active", "view", 0, <<CondGt(0)>>, {"u1"}, {}, 0, 0, "tpl")
        ELSE CampaignDoc("active", "view", 1, <<>>, {}, {}, 0, NoDate, "tpl")]

SeedEvent ==
    [userId |-> "u1", eventType |-> "view", timestamp |-> 0, meta |-> MetaK(MetaVal(Num(1))),
     processed |-> TRUE, runs |-> "once",
     triggeredCampaigns |-> <<TriggeredEntry(Campaigns[1], 0), TriggeredEntry(Campaigns[2], 1)>>]

SeedEmails ==
    << NewEmail(Campaigns[1], 1, SeedEvent, 0, "tpl", 1, 0),
       NewEmail(Campaigns[2], 1, SeedEvent, 1, "tpl", 2, 0) >>

SeedDispatch ==
    [e \in 1..MaxEvents |->
        IF e = 1
        THEN [pc |-> "done", ev |-> 1, cands |-> Campaigns, i |-> 2, userFound |-> TRUE,
              triggered |-> Campaigns, evald |-> CampaignIds, failed |-> {},
              stage |-> "none", response |-> "created"]
        ELSE IdleTask]

InitWorker ==
    /\ now = 0
    /\ campaigns = SeedCampaigns
    /\ analytics = [c \in CampaignIds |-> ZeroAnalytics]
    /\ events = <<SeedEvent>>
    /\ emails = SeedEmails
    /\ dispatch = SeedDispatch
    /\ sweep = [s \in Sweepers |-> IdleSweep]
    /\ worker = [w \in Workers |-> IdleWorker]
    /\ hit = [h \in Hits |-> IdleHit]
    /\ faults = MaxFaults

NextWorker ==
    \/ \E w \in Workers : WorkerStart(w, EmailBatchSize)
    \/ \E w \in Workers : WorkerClaim(w)
    \/ \E w \in Workers : WorkerSend(w)
    \/ \E w \in Workers : WorkerMarkSent(w)
    \/ \E w \in Workers : WorkerIncSent(w)
    \/ \E w \in Workers : WorkerMarkFailed(w)
    \/ \E w \in Workers : WorkerIncBounced(w)
    \/ Tick

SpecWorker == InitWorker /\ [][NextWorker]_vars

\* one step of a run of processScheduledEmails by worker w
WorkerStep(w) ==
    \/ WorkerStart(w, EmailBatchSize) \/ WorkerClaim(w) \/ WorkerSend(w)
    \/ WorkerMarkSent(w) \/ WorkerIncSent(w)
    \/ WorkerMarkFailed(w) \/ WorkerIncBounced(w)

\* the delivery worker keeps being run (email.worker.js is started again
\* and again by its schedule) and a started run goes on
FairSpecWorker == SpecWorker /\ \A w \in Workers : WF_vars(WorkerStep(w))

\* -------------------------------------------------- tracking specification
\* The store after one worker run at time 1 sent both seeded emails.
SentEmails ==
    [i \in DOMAIN SeedEmails |->
        [SeedEmails[i] EXCEPT !.status = "sent", !.sentAt = 1, !.messageId = TRUE,
                              !.sends = 1, !.outcome = "accepted"]]

InitTrack ==
    /\ now = 1
    /\ campaigns = SeedCampaigns
    /\ analytics = [c \in CampaignIds |-> [ZeroAnalytics EXCEPT !.sent = 1]]
    /\ events = <<SeedEvent>>
    /\ emails = SentEmails
    /\ dispatch = SeedDispatch
    /\ sweep = [s \in Sweepers |-> IdleSweep]
    /\ worker = [w \in Workers |->
                    IF w = "w1" THEN [IdleWorker EXCEPT !.result = 2, !.accepted = 2]
                    ELSE IdleWorker]
    /\ hit = [h \in Hits |-> IdleHit]
    /\ faults = MaxFaults

NextTrack ==
    \/ \E h \in Hits, tid \in PresentedIds : OpenRequest(h, tid)
    \/ \E h \in Hits : OpenFind(h)
    \/ \E h \in Hits : OpenSave(h)
    \/ \E h \in Hits : OpenInc(h)
    \/ \E h \in Hits, tid \in PresentedIds, idx \in 1..(LinksPerEmail + 1) : ClickFind(h, tid, idx)
    \/ \E h \in Hits : ClickSave(h)
    \/ \E h \in Hits : ClickInc(h)
    \/ Tick

SpecTrack == InitTrack /\ [][NextTrack]_vars

\* ---------------------------------------------- due-item query specification
\* The store after one event of user u1 at time 0 was processed twice (by
\* the dispatch task and by the sweep) for the first campaign and once for
\* the second, and earlier worker runs have sent some of the Deliveries; the
\* worker is then run with a batch size of the operator's choice.
MaxBatchSize == 3

QueryDelays == 0..MaxTime

QueryCampaigns(d1, d2) ==
    [c \in CampaignIds |->
        IF c = Campaigns[1]
        THEN CampaignDoc("active", "view", d1, <<>>, {}, {}, 0, NoDate, "tpl")
        ELSE CampaignDoc("active", "view", d2, <<>>, {}, {}, 0, NoDate, "tpl")]

QueryEvent(d1, d2) ==
    [SeedEvent EXCEPT !.runs = "again",
        !.triggeredCampaigns = <<TriggeredEntry(Campaigns[1], d1), TriggeredEntry(Campaigns[2], d2),
                                 TriggeredEntry(Campaigns[1], d1)>>]

QueryEmails(d1, d2, sent) ==
    LET made == << NewEmail(Campaigns[1], 1, SeedEvent, d1, "tpl", 1, 0),
                   NewEmail(Campaigns[2], 1, SeedEvent, d2, "tpl", 2, 0),
                   NewEmail(Campaigns[1], 1, SeedEvent, d1, "tpl", 3, 0) >>
    IN  [i \in DOMAIN made |->
            IF i \in sent
            THEN [made[i] EXCEPT !.status = "sent", !.sentAt = made[i].scheduledFor,
                                 !.messageId = TRUE, !.sends = 1, !.outcome = "accepted"]
            ELSE made[i]]

InitQuery ==
    /\ \E d1, d2 \in QueryDelays, sent \in SUBSET (DOMAIN QueryEmails(0, 0, {})) :
         /\ campaigns = QueryCampaigns(d1, d2)
         /\ events = <<QueryEvent(d1, d2)>>
         /\ emails = QueryEmails(d1, d2, sent)
         /\ now \in {t \in Times : \A i \in sent : QueryEmails(d1, d2, sent)[i].scheduledFor <= t}
         /\ analytics = [c \in CampaignIds |->
               [ZeroAnalytics EXCEPT !.sent =
                   Cardinality({i \in sent : QueryEmails(d1, d2, sent)[i].campaignId = c})]]
    /\ dispatch = SeedDispatch
    /\ sweep = [s \in Sweepers |-> IdleSweep]
    /\ worker = [w \in Workers |-> IdleWorker]
    /\ hit = [h \in Hits |-> IdleHit]
    /\ faults = MaxFaults

NextQuery ==
    \/ \E w \in Workers, batchSize \in 1..MaxBatchSize : WorkerStart(w, batchSize)
    \/ Tick

SpecQuery == InitQuery /\ [][NextQuery]_vars

\* ------------------------------------------------------ campaign updates
\* mutant of AllowedFields: analytics may be patched as well
AllowedFieldsWithAnalytics ==
    {"name", "description", "templateId", "triggerEvent", "delay", "conditions",
     "audience", "excludedAudience", "startDate", "endDate", "status", "metadata",
     "defaultVariables", "analytics"}

\* updateCampaign, lines 183-197: the fields a PATCH may set
AllowedFields ==
    {"name", "description", "templateId", "triggerEvent", "delay", "conditions",
     "audience", "excludedAudience", "startDate", "endDate", "status", "metadata",
     "defaultVariables"}

\* The bodies of the PATCH requests: keys is Object.keys(req.body); name,
\* status and analytics are the values under these keys.
UpdateBodies ==
    { [keys |-> {"status"}, name |-> "n0", status |-> "paused", analytics |-> ZeroAnalytics],
      [keys |-> {"name", "analytics", "createdBy"}, name |-> "n1", status |-> "paused",
       analytics |-> ZeroAnalytics] }

\* updateCampaign, lines 199-215: keep the allowed keys of the body and
\* set them with findByIdAndUpdate
UpdateCampaign(c, body) ==
    LET filteredBody == body.keys \cap AllowedFields
    IN  /\ campaigns' = [campaigns EXCEPT
                            ![c].name = IF "name" \in filteredBody THEN body.name ELSE @,
                            ![c].status = IF "status" \in filteredBody THEN body.status ELSE @]
        /\ analytics' = [analytics EXCEPT
                            ![c] = IF "analytics" \in filteredBody THEN body.analytics ELSE @]
        /\ UNCHANGED <<now, events, emails, dispatch, sweep, worker, hit, faults>>

\* The worker, the tracking endpoints and PATCH requests side by side, from
\* two scheduled Deliveries: one worker instance, one tracking request and
\* PATCH requests for the first campaign.
CounterWorkers == {"w1"}
CounterHits == {"h1"}
UpdatedCampaigns == {Campaigns[1]}

NextCounters ==
    \/ \E w \in CounterWorkers : WorkerStart(w, EmailBatchSize)
    \/ \E w \in CounterWorkers : WorkerClaim(w)
    \/ \E w \in CounterWorkers : WorkerSend(w)
    \/ \E w \in CounterWorkers : WorkerMarkSent(w)
    \/ \E w \in CounterWorkers : WorkerIncSent(w)
    \/ \E w \in CounterWorkers : WorkerMarkFailed(w)
    \/ \E w \in CounterWorkers : WorkerIncBounced(w)
    \/ \E h \in CounterHits, tid \in PresentedIds : OpenRequest(h, tid)
    \/ \E h \in CounterHits : OpenFind(h)
    \/ \E h \in CounterHits : OpenSave(h)
    \/ \E h \in CounterHits : OpenInc(h)
    \/ \E h \in CounterHits, tid \in PresentedIds, idx \in 1..(LinksPerEmail + 1) :
          ClickFind(h, tid, idx)
    \/ \E h \in CounterHits : ClickSave(h)
    \/ \E h \in CounterHits : ClickInc(h)
    \/ \E c \in UpdatedCampaigns, body \in UpdateBodies : UpdateCampaign(c, body)
    \/ Tick

SpecCounters == InitWorker /\ [][NextCounters]_vars

\* ------------------------------------------- the matcher on its conditions
\* An operator object carrying both gt and lt
CondBetween(lo, hi) ==
    [key |-> "k", kind |-> "obj", lit |-> Undefined, ops |-> {"gt", "lt"},
     exV |-> FALSE, eqV |-> Undefined, gtV |-> lo, ltV |-> hi]

\* The condition maps the first campaign may carry: every operator, literal
\* operands, the README example (exists: true), a null operand, and maps
\* of two entries over two keys.
ConditionCatalogue ==
    { <<>>,
      <<CondExists(TRUE)>>, <<CondExists(FALSE)>>,
      <<CondGt(-1)>>, <<CondGt(0)>>, <<CondLt(0)>>, <<CondLt(1)>>,
      <<CondBetween(-1, 1)>>,
      <<CondLit(Num(0))>>, <<CondLit(Num(1))>>, <<CondLit(Str("p1"))>>,
      <<CondEquals(Num(1))>>, <<CondEquals(Str("p1"))>>,
      <<CondNull>>,
      <<CondLit(Num(1)), OnKey(CondExists(TRUE), "j")>>,
      <<CondGt(0), OnKey(CondLit(Str("p1")), "j")>>,
      <<CondExists(TRUE), OnKey(CondExists(FALSE), "j")>> }

\* The values an event may carry under a metadata key
SlotCatalogue ==
    { MetaAbsent, MetaVal(Num(-1)), MetaVal(Num(0)), MetaVal(Num(1)),
      MetaVal(Str("p1")), MetaVal(Str("")) }

\* The metadata of the events ingested: any value under "k", and under "j"
\* nothing or a non-empty string
MetadataCatalogue ==
    { MetaKJ(mk, mj) : mk \in SlotCatalogue, mj \in {MetaAbsent, MetaVal(Str("p1"))} }

\* The first campaign is active, always in its date window, open to every
\* user and has a template; only its conditions vary.  The store does not
\* fail.
InitCond ==
    /\ now = 0
    /\ \E conds \in ConditionCatalogue :
         campaigns = [c \in CampaignIds |->
                        IF c = Campaigns[1]
                        THEN CampaignDoc("active", "view", 0, conds, {}, {}, 0, NoDate, "tpl")
                        ELSE CampaignDoc("active", "view", 0, <<>>, {}, {}, 0, NoDate, "tpl")]
    /\ analytics = [c \in CampaignIds |-> ZeroAnalytics]
    /\ events = <<>>
    /\ emails = <<>>
    /\ dispatch = [e \in 1..MaxEvents |-> IdleTask]
    /\ sweep = [s \in Sweepers |-> IdleSweep]
    /\ worker = [w \in Workers |-> IdleWorker]
    /\ hit = [h \in Hits |-> IdleHit]
    /\ faults = 0

NextCond ==
    \/ \E m \in MetadataCatalogue : TrackEvent("u1", "view", m)
    \/ \E e \in 1..MaxEvents : DispatchFind(e)
    \/ \E e \in 1..MaxEvents : DispatchLoop(e)
    \/ \E e \in 1..MaxEvents : DispatchCompose(e)
    \/ \E e \in 1..MaxEvents : DispatchFinalize(e)

SpecCond == InitCond /\ [][NextCond]_vars

\* -------------------------------------------- scheduling from templates
\* Both campaigns are active, unconditional and open to every user; their
\* templates vary over the catalogue.  The store does not fail.
InitInstrument ==
    /\ now = 0
    /\ \E t1, t2 \in Templates :
         campaigns = [c \in CampaignIds |->
                        CampaignDoc("active", "view", 0, <<>>, {}, {}, 0, NoDate,
                                    IF c = Campaigns[1] THEN t1 ELSE t2)]
    /\ analytics = [c \in CampaignIds |-> ZeroAnalytics]
    /\ events = <<>>
    /\ emails = <<>>
    /\ dispatch = [e \in 1..MaxEvents |-> IdleTask]
    /\ sweep = [s \in Sweepers |-> IdleSweep]
    /\ worker = [w \in Workers |-> IdleWorker]
    /\ hit = [h \in Hits |-> IdleHit]
    /\ faults = 0

NextInstrument ==
    \/ \E u \in Users : TrackEvent(u, "view", MetaK(MetaAbsent))
    \/ \E e \in 1..MaxEvents : DispatchFind(e)
    \/ \E e \in 1..MaxEvents : DispatchLoop(e)
    \/ \E e \in 1..MaxEvents : DispatchCompose(e)
    \/ \E e \in 1..MaxEvents : DispatchFinalize(e)

SpecInstrument == InitInstrument /\ [][NextInstrument]_vars

\* ---------------------------------------------- rendering from metadata
\* The metadata of the events whose values reach the templates: numbers,
\* plain strings, the replacement patterns "$&" and "$$", and strings that
\* are themselves placeholders
RenderCatalogue ==
    { MetaKJ(mk, mj) :
        mk \in {MetaAbsent, MetaVal(Num(1)), MetaVal(Str("p1")), MetaVal(Str("")),
                MetaVal(Str("$&")), MetaVal(Str("$$")), MetaVal(Str("{{event_j}}"))},
        mj \in {MetaAbsent, MetaVal(Str("p1")), MetaVal(Str("{{event_k}}"))} }

NextRender ==
    \/ \E m \in RenderCatalogue : TrackEvent("u1", "view", m)
    \/ \E e \in 1..MaxEvents : DispatchFind(e)
    \/ \E e \in 1..MaxEvents : DispatchLoop(e)
    \/ \E e \in 1..MaxEvents : DispatchCompose(e)
    \/ \E e \in 1..MaxEvents : DispatchFinalize(e)

SpecRender == InitInstrument /\ [][NextRender]_vars

\* ------------------------------------------ tracking requests in sequence
\* no request other than h is being handled
Alone(h) == \A g \in Hits \ {h} : hit[g].pc \in {"idle", "done"}

\* The sent Deliveries of SpecTrack; the store does not fail.
InitClicks ==
    /\ now = 1
    /\ campaigns = SeedCampaigns
    /\ analytics = [c \in CampaignIds |-> [ZeroAnalytics EXCEPT !.sent = 1]]
    /\ events = <<SeedEvent>>
    /\ emails = SentEmails
    /\ dispatch = SeedDispatch
    /\ sweep = [s \in Sweepers |-> IdleSweep]
    /\ worker = [w \in Workers |->
                    IF w = "w1" THEN [IdleWorker EXCEPT !.result = 2, !.accepted = 2]
                    ELSE IdleWorker]
    /\ hit = [h \in Hits |-> IdleHit]
    /\ faults = 0

\* Requests are handled one after the other: a request comes in only when
\* no other one is in progress.  A request names a Delivery by its stored
\* trackingId.
NextClicks ==
    \/ \E h \in Hits, d \in DOMAIN emails : Alone(h) /\ OpenRequest(h, emails[d].trackingId)
    \/ \E h \in Hits : OpenFind(h)
    \/ \E h \in Hits : OpenSave(h)
    \/ \E h \in Hits : OpenInc(h)
    \/ \E h \in Hits, d \in DOMAIN emails, idx \in 1..(LinksPerEmail + 1) :
          Alone(h) /\ ClickFind(h, emails[d].trackingId, idx)
    \/ \E h \in Hits : ClickSave(h)
    \/ \E h \in Hits : ClickInc(h)
    \/ Tick

SpecClicks == InitClicks /\ [][NextClicks]_vars

\* ------------------------------------------------------ the whole service
Init == InitMatch

Next == NextMatch \/ NextWorker \/ NextTrack \/ NextQuery \/ NextCond \/ NextCounters \/ NextInstrument \/ NextRender \/ NextClicks

Spec == Init /\ [][Next]_vars

\* The sweep is run again and again (email.worker.js is started on a fixed
\* interval) and each of its steps completes; the background task of
\* trackEvent may fail or never run.
SweepStep(s) ==
    \/ SweepStart(s) \/ SweepFind(s) \/ SweepLoop(s)
    \/ SweepCompose(s) \/ SweepFinalize(s) \/ SweepAdvance(s)

FairSpecMatch == SpecMatch /\ \A s \in Sweepers : WF_vars(SweepStep(s))

\* ==================================================================== claims
Tasks == {dispatch[e] : e \in 1..MaxEvents} \cup {sweep[s].task : s \in Sweepers}

EmailsOf(e, c) == {i \in DOMAIN emails : emails[i].eventId = e /\ emails[i].campaignId = c}

EntriesOf(e, c) ==
    {a \in DOMAIN events[e].triggeredCampaigns : events[e].triggeredCampaigns[a].campaignId = c}

\* C1: the Email Transport is invoked at most once for any one Delivery,
\* also when worker runs overlap.
C1_SentAtMostOnce == \A i \in DOMAIN emails : emails[i].sends <= 1

\* C2: there is at most one Delivery per (eventId, campaignId) under every
\* interleaving of the post-ingestion dispatch and the sweep (stated for the
\* behaviours in which the store never fails and no condition raises).
C2_OneDeliveryPerPair ==
    (faults = MaxFaults /\ \A c \in CampaignIds : campaigns[c].conditions # <<CondNull>>)
        => \A e \in DOMAIN events, c \in CampaignIds : Cardinality(EmailsOf(e, c)) <= 1

\* C3: Event.triggeredCampaigns never holds two entries with the same
\* campaignId, also after an event is processed again.
C3_OneEntryPerCampaign ==
    \A e \in DOMAIN events, c \in CampaignIds : Cardinality(EntriesOf(e, c)) <= 1

\* The condition predicate as section 4.1 of the specification defines it.
EntryHolds(cond, m) ==
    CASE cond.kind = "lit" -> m.has /\ m.val = cond.lit
      [] cond.kind = "null" -> FALSE
      [] OTHER ->
           /\ "exists" \in cond.ops => (m.has = cond.exV)
           /\ "equals" \in cond.ops => (m.has /\ m.val = cond.eqV)
           /\ "gt" \in cond.ops => (m.has /\ m.val.kind = "num" /\ m.val.n > cond.gtV)
           /\ "lt" \in cond.ops => (m.has /\ m.val.kind = "num" /\ m.val.n < cond.ltV)

Satisfies(conds, m) == \A a \in DOMAIN conds : EntryHolds(conds[a], m[conds[a].key])

\* Campaign c is eligible for event e: active, same type, date-active from
\* the event's timestamp until now, audience admits the user, conditions hold.
Eligible(c, e) ==
    LET doc == campaigns[c]
        ev == events[e]
    IN  /\ doc.status = "active"
        /\ doc.triggerEvent = ev.eventType
        /\ doc.startDate <= ev.timestamp
        /\ doc.endDate = NoDate \/ now <= doc.endDate
        /\ doc.audience = {} \/ ev.userId \in doc.audience
        /\ ev.userId \notin doc.excludedAudience
        /\ Satisfies(doc.conditions, ev.meta)

\* C4: when an event was processed once and nothing failed, every eligible
\* campaign has exactly one Delivery, scheduled for timestamp + delay, and
\* exactly one entry in the event's triggeredCampaigns.
C4_ExactlyOneDelivery ==
    \A t \in Tasks :
        (t.pc = "done" /\ t.userFound /\ t.failed = {} /\ events[t.ev].runs = "once")
        => \A c \in CampaignIds :
             Eligible(c, t.ev) =>
               /\ Cardinality(EmailsOf(t.ev, c)) = 1
               /\ \A i \in EmailsOf(t.ev, c) :
                    /\ emails[i].status = "scheduled"
                    /\ emails[i].scheduledFor = events[t.ev].timestamp + campaigns[c].delay
               /\ Cardinality(EntriesOf(t.ev, c)) = 1

CandSet(t) == {t.cands[a] : a \in DOMAIN t.cands}

\* C5: a failure composing or scheduling the Delivery of one campaign never
\* ends processEvent: no call rejects at that point, and a call that
\* returns after such a failure has reached every candidate and has set
\* processed.
C5_ComposeFailureIsolated ==
    \A t \in Tasks :
        t.failed # {} =>
            /\ t.pc = "threw" => t.stage \in {"filter", "finalize"}
            /\ t.pc \in {"finalize", "done"} => t.evald = CandSet(t)
            /\ t.pc = "done" => events[t.ev].processed

\* C5 witness: the first candidate's template is missing, the
\* second one was still evaluated and scheduled, and the event is processed.
C5_Witness ==
    \E t \in Tasks :
        /\ t.pc = "done" /\ Len(t.cands) = 2
        /\ t.cands[1] \in t.failed /\ t.cands[2] \notin t.failed
        /\ campaigns[t.cands[1]].templateId \notin Templates
        /\ EmailsOf(t.ev, t.cands[2]) # {}
        /\ events[t.ev].processed

\* C6: every persisted event is eventually processed when the sweep keeps
\* running.
C6_EventuallyProcessed ==
    \A e \in 1..MaxEvents : [](e \in DOMAIN events => <>(e \in DOMAIN events /\ events[e].processed))

\* a call of processEvent that read event e while it was unprocessed is in
\* progress, or e is queued in the batch of a sweep run that read it so
InFlight(e) ==
    \/ dispatch[e].pc \in {"find", "loop", "compose", "finalize"}
    \/ \E s \in Sweepers :
         /\ sweep[s].pc = "run"
         /\ e \notin sweep[s].skipped
         /\ \E a \in DOMAIN sweep[s].batch : a >= sweep[s].k /\ sweep[s].batch[a] = e

AllEmailsOf(e) == {i \in DOMAIN emails : emails[i].eventId = e}

\* C7: once an event has processed = true, and no call that read it while it
\* was unprocessed is still in progress, no step (so no sweep run started
\* from then on) adds an entry to its triggeredCampaigns or creates a
\* Delivery for it.
C7_SweepIdempotent ==
    [][\A e \in DOMAIN events :
          (events[e].processed /\ ~InFlight(e)) =>
              /\ events'[e].triggeredCampaigns = events[e].triggeredCampaigns
              /\ AllEmailsOf(e)' = AllEmailsOf(e)]_vars

\* C7 witness: a sweep run read its batch when the event, with a triggered
\* campaign, was already processed.
C7_Witness ==
    \E s \in Sweepers, e \in DOMAIN events :
        /\ e \in sweep[s].skipped
        /\ events[e].processed
        /\ events[e].triggeredCampaigns # <<>>
        /\ AllEmailsOf(e) # {}

HitsOn(kind, d) == {h \in Hits : hit[h].kind = kind /\ hit[h].email = d}

\* C8: the first click on a registered link of a Delivery increases the
\* campaign's clicked counter by exactly one.
C8_FirstClickCounted ==
    \A h \in Hits :
        (/\ hit[h].pc = "done" /\ hit[h].kind = "click" /\ ~hit[h].threw
         /\ hit[h].email # 0 /\ hit[h].idx \in DOMAIN emails[hit[h].email].clicks
         /\ hit[h].seen # "clicked")
        => hit[h].incd = 1

\* C9: an open hit that finds the Delivery in a status other than opened
\* sets opened, stamps openedAt and adds exactly one to the campaign's
\* opened counter; one that finds it opened adds nothing; the counter is the
\* sum of these additions.
C9_OpenCounted ==
    /\ \A h \in Hits :
         (hit[h].pc = "done" /\ hit[h].kind = "open" /\ ~hit[h].threw /\ hit[h].email # 0)
         => /\ hit[h].seen # "opened" =>
                 /\ hit[h].incd = 1
                 /\ emails[hit[h].email].openedAt # NoDate
                 /\ HitsOn("click", hit[h].email) = {} => emails[hit[h].email].status = "opened"
            /\ hit[h].seen = "opened" => hit[h].incd = 0
    /\ \A c \in CampaignIds :
         analytics[c].opened =
             Cardinality({h \in Hits : /\ hit[h].kind = "open" /\ hit[h].incd = 1
                                       /\ emails[hit[h].email].campaignId = c})

\* C9 witness: one open hit found the Delivery sent and counted it, a later
\* one found it opened and did not.
C9_Witness ==
    \E h1, h2 \in Hits :
        /\ hit[h1].pc = "done" /\ hit[h1].kind = "open" /\ hit[h1].seen = "sent"
        /\ hit[h1].incd = 1
        /\ hit[h2].pc = "done" /\ hit[h2].kind = "open" /\ hit[h2].seen = "opened"
        /\ hit[h2].email = hit[h1].email /\ hit[h2].incd = 0
        /\ analytics[emails[hit[h1].email].campaignId].opened = 1

\* C10: open hits handled concurrently for one trackingId increase the
\* campaign's opened counter at most once for that Delivery.
C10_OpenedOncePerDelivery ==
    \A d \in DOMAIN emails :
        HitsOn("click", d) = {} =>
            Cardinality({h \in HitsOn("open", d) : hit[h].incd = 1}) <= 1

\* C11: the trackingId carried by the open pixel and the click URLs in the
\* body of a Delivery is the Delivery's own stored trackingId, so a hit made
\* with the identifier found in the body resolves to that Delivery.
C11_BodyIdResolves ==
    \A i \in DOMAIN emails :
        /\ emails[i].bodyTrackingId = emails[i].trackingId
        /\ findOne(emails[i].bodyTrackingId) = i

\* the status changes of section 4.4 that belong to the Delivery Worker
WorkerEdges == {<<"scheduled", "sending">>, <<"sending", "sent">>, <<"sending", "failed">>}

\* only one worker has ever run
SingleWorker == \E w \in Workers : \A v \in Workers \ {w} : worker[v] = IdleWorker

\* C12: every status change made by the Delivery Worker follows the
\* documented edges: sending only from scheduled, sent only from sending,
\* failed only from sending (stated for the steps of a worker whose runs
\* overlap with no other worker's).
C12_WorkerEdges ==
    [][(SingleWorker /\ SingleWorker') =>
          \A i \in DOMAIN emails :
              emails'[i].status # emails[i].status =>
                  <<emails[i].status, emails'[i].status>> \in WorkerEdges]_vars

\* every request that is about to save Delivery i loaded it in the status
\* it has now
NoStaleHit(i) ==
    \A h \in Hits :
        (hit[h].email = i /\ hit[h].pc \in {"openSave", "clickSave"})
            => hit[h].seen = emails[i].status

\* C13: once a Delivery's status is failed or clicked, no worker run and no
\* open or click hit changes it (stated for hits that loaded the Delivery in
\* that status, so not for a write that was already under way).
C13_TerminalStatus ==
    [][\A i \in DOMAIN emails :
          (emails[i].status \in {"failed", "clicked"} /\ NoStaleHit(i))
              => emails'[i].status = emails[i].status]_vars

\* C14: each of sentAt, openedAt and clickedAt is written at most once:
\* after its first assignment its value never changes (stated for hits that
\* do not overlap with another write of the same Delivery).
C14_StampedOnce ==
    [][\A i \in DOMAIN emails :
        NoStaleHit(i) =>
          /\ emails[i].sentAt # NoDate => emails'[i].sentAt = emails[i].sentAt
          /\ emails[i].openedAt # NoDate => emails'[i].openedAt = emails[i].openedAt
          /\ emails[i].clickedAt # NoDate => emails'[i].clickedAt = emails[i].clickedAt]_vars

\* Delivery i is being handled by a worker run
InWorker(i) ==
    \E w \in Workers : worker[w].pc # "idle" /\ worker[w].batch[worker[w].k] = i

\* the Deliveries of campaign c for which the transport answered o
OutcomesOf(c, o) ==
    {i \in DOMAIN emails : emails[i].campaignId = c /\ emails[i].outcome = o /\ ~InWorker(i)}

\* C15: a Delivery that the Email Transport accepted ends the run in status
\* sent with sentAt and the message id set and adds exactly one to
\* analytics.sent; one for which the transport raised ends in status failed
\* with errorMessage set and adds exactly one to analytics.bounced (stated
\* for the states in which every run has returned and the store has never
\* failed).
C15_OutcomeRecorded ==
    (faults = MaxFaults /\ \A w \in Workers : worker[w].pc = "idle") =>
        /\ \A i \in DOMAIN emails :
              /\ emails[i].outcome = "accepted" =>
                   /\ emails[i].status = "sent"
                   /\ emails[i].sentAt # NoDate
                   /\ emails[i].messageId
              /\ emails[i].outcome = "raised" =>
                   /\ emails[i].status = "failed"
                   /\ emails[i].errorMessage
        /\ \A c \in CampaignIds :
             /\ analytics[c].sent = Cardinality(OutcomesOf(c, "accepted"))
             /\ analytics[c].bounced = Cardinality(OutcomesOf(c, "raised"))

\* C16: a failure while handling one Delivery of a batch (a transport error
\* or a store error on that item) never aborts the run: no run ends while
\* Deliveries selected for it have not been attempted.
C16_BatchNeverAborted == \A w \in Workers : worker[w].left = 0

\* C17: processScheduledEmails returns exactly the number of Deliveries that
\* the Email Transport accepted during that run.
C17_ReturnsSentCount ==
    \A w \in Workers :
        (worker[w].pc = "idle" /\ worker[w].result # NoDate)
            => worker[w].result = worker[w].accepted

\* the Deliveries of a query result
InBatch(q) == {q[a] : a \in DOMAIN q}

\* the due scheduled Deliveries, written out from the claim
Due(i) == emails[i].status = "scheduled" /\ emails[i].scheduledFor <= now

\* C18: the batch that findPendingEmails(limit) hands to a run holds only
\* Deliveries with status scheduled and scheduledFor <= now, each once, in
\* ascending scheduledFor order and at most limit of them; it is as long as
\* the limit and the number of due Deliveries allow, and no due Delivery
\* that is left out has an earlier scheduledFor than one that is returned.
C18_DueQuery ==
    [][\A w \in Workers :
          (worker[w].pc = "idle" /\ worker'[w].pc = "claim") =>
              LET q == worker'[w].batch
                  limit == worker'[w].batchSize
                  due == {i \in DOMAIN emails : Due(i)}
              IN  /\ \A a \in DOMAIN q : Due(q[a])
                  /\ \A a, b \in DOMAIN q :
                       a < b => q[a] # q[b] /\ emails[q[a]].scheduledFor <= emails[q[b]].scheduledFor
                  /\ Len(q) <= limit
                  /\ Len(q) = Min(limit, Cardinality(due))
                  /\ \A i \in due \ InBatch(q) :
                       \A a \in DOMAIN q : emails[q[a]].scheduledFor <= emails[i].scheduledFor]_vars

\* C18 witness: a run was handed two Deliveries with different scheduledFor
\* while a third due Delivery was cut off by the limit.
C18_Witness ==
    \E w \in Workers :
        /\ worker[w].pc = "claim" /\ worker[w].k = 1
        /\ Len(worker[w].batch) = worker[w].batchSize
        /\ \E i \in DOMAIN emails : Due(i) /\ i \notin InBatch(worker[w].batch)
        /\ \E a, b \in DOMAIN worker[w].batch :
             emails[worker[w].batch[a]].scheduledFor < emails[worker[w].batch[b]].scheduledFor

\* campaign c is active, triggered by the type of event e, and its date
\* window contains the time t
Triggerable(c, e, t) ==
    /\ campaigns[c].status = "active"
    /\ campaigns[c].triggerEvent = events[e].eventType
    /\ campaigns[c].startDate <= t
    /\ campaigns[c].endDate = NoDate \/ t <= campaigns[c].endDate

\* a call of processEvent that goes on from the filters of a candidate to
\* scheduling does so for a triggerable campaign
GoesOn(t, t2) ==
    (t.pc = "loop" /\ t2.pc = "compose") => Triggerable(t.cands[t.i], t.ev, now)

\* C19: a Delivery is only ever created for a Campaign that, when the Event
\* is processed, has status active, has the Event's type as trigger and
\* whose date window contains the current time: a call of processEvent goes
\* on to schedule for a candidate only at such a time, and a Delivery is only
\* created by a call that did.
C19_OnlyTriggerableCampaigns ==
    [][/\ \A e \in 1..MaxEvents : GoesOn(dispatch[e], dispatch'[e])
       /\ \A s \in Sweepers : GoesOn(sweep[s].task, sweep'[s].task)
       /\ \A i \in DOMAIN emails' \ DOMAIN emails :
            /\ campaigns[emails'[i].campaignId].status = "active"
            /\ campaigns[emails'[i].campaignId].triggerEvent = events[emails'[i].eventId].eventType
            /\ \E t \in Tasks :
                 /\ t.pc = "compose"
                 /\ t.ev = emails'[i].eventId
                 /\ t.cands[t.i] = emails'[i].campaignId]_vars

\* C19 witness: an event that the first campaign would match was processed
\* after that campaign's end date; the second campaign got its Delivery, the
\* first one none.
C19_Witness ==
    \E t \in Tasks :
        /\ t.pc = "done" /\ t.failed = {} /\ faults = MaxFaults
        /\ events[t.ev].runs = "once"
        /\ Campaigns[1] \in t.evald
        /\ campaigns[Campaigns[1]].endDate # NoDate
        /\ shouldSendToUser(campaigns[Campaigns[1]], events[t.ev].userId)
        /\ matchesConditions(campaigns[Campaigns[1]], events[t.ev]) = "true"
        /\ EmailsOf(t.ev, Campaigns[1]) = {}
        /\ EmailsOf(t.ev, Campaigns[2]) # {}

\* the audience filter as the claim states it
Admits(c, userId) ==
    /\ userId \notin campaigns[c].excludedAudience
    /\ campaigns[c].audience = {} \/ userId \in campaigns[c].audience

\* C20: the audience filter admits a user exactly when the user is not in
\* the deny-list and either the allow-list is empty or the user is in it;
\* so processEvent records and schedules a campaign only for an admitted
\* user, and a user present in both lists gets nothing.
C20_AudienceFilter ==
    /\ \A c \in CampaignIds, u \in UserIds :
         shouldSendToUser(campaigns[c], u) = Admits(c, u)
    /\ \A t \in Tasks :
         \A a \in DOMAIN t.triggered : Admits(t.triggered[a], events[t.ev].userId)
    /\ \A i \in DOMAIN emails : Admits(emails[i].campaignId, emails[i].userId)

\* C20 witness: the event of a user who is in both lists of the first
\* campaign was processed; the second campaign was triggered for it, the
\* first one was evaluated and not triggered.
C20_Witness ==
    \E t \in Tasks :
        /\ t.pc = "done"
        /\ events[t.ev].userId \in campaigns[Campaigns[1]].audience
        /\ events[t.ev].userId \in campaigns[Campaigns[1]].excludedAudience
        /\ Campaigns[1] \in t.evald
        /\ EmailsOf(t.ev, Campaigns[1]) = {} /\ EntriesOf(t.ev, Campaigns[1]) = {}
        /\ EmailsOf(t.ev, Campaigns[2]) # {}

\* the task recorded campaign c as triggered by its event
TriggeredBy(t, c) == \E a \in DOMAIN t.triggered : t.triggered[a] = c

\* what the event of task t carries under metadata.<key>
SlotOf(t, key) == events[t.ev].meta[key]

\* dispatch tasks that have evaluated the first campaign, whose condition
\* map is conds
EvaluatedUnder(conds) ==
    {e \in 1..MaxEvents : /\ campaigns[Campaigns[1]].conditions = conds
                          /\ Campaigns[1] \in dispatch[e].evald}

\* a present, non-empty value: a non-empty string or a non-zero number
NonEmptyValue(m) ==
    /\ m.has
    /\ m.val.kind = "str" => m.val.s # ""
    /\ m.val.kind = "num" => m.val.n # 0
    /\ m.val.kind # "undef"

\* C21: under the condition map {metadata.k: {exists: true}} an event whose
\* metadata.k is a present, non-empty value triggers the campaign, and an
\* event without metadata.k does not.
C21_ExistsTrue ==
    \A e \in EvaluatedUnder(<<CondExists(TRUE)>>) :
        LET t == dispatch[e]
            m == SlotOf(t, "k")
        IN  /\ NonEmptyValue(m) => TriggeredBy(t, Campaigns[1]) /\ t.pc # "threw"
            /\ ~m.has => ~TriggeredBy(t, Campaigns[1]) /\ t.pc # "threw"

\* C21 witness: the event with metadata.k = "p1" was processed against
\* {exists: true} and a Delivery of the first campaign was scheduled for it.
C21_Witness ==
    \E e \in EvaluatedUnder(<<CondExists(TRUE)>>) :
        /\ dispatch[e].pc = "done"
        /\ SlotOf(dispatch[e], "k") = MetaVal(Str("p1"))
        /\ TriggeredBy(dispatch[e], Campaigns[1])
        /\ EmailsOf(e, Campaigns[1]) # {}

\* condition maps of one entry on metadata.k that is not {exists: false}
\* and not a null operand
OtherSingleEntries ==
    {conds \in ConditionCatalogue :
        /\ Len(conds) = 1
        /\ conds[1].kind # "null"
        /\ conds # <<CondExists(FALSE)>>}

\* C22: when metadata.k does not resolve, {metadata.k: {exists: false}}
\* matches, and every other operator and plain equality on metadata.k
\* yield a non-match.
C22_ExistsFalseOnUnresolved ==
    /\ \A e \in EvaluatedUnder(<<CondExists(FALSE)>>) :
         ~SlotOf(dispatch[e], "k").has => TriggeredBy(dispatch[e], Campaigns[1])
    /\ \A conds \in OtherSingleEntries : \A e \in EvaluatedUnder(conds) :
         ~SlotOf(dispatch[e], "k").has =>
             ~TriggeredBy(dispatch[e], Campaigns[1]) /\ dispatch[e].pc # "threw"

\* the operands n of the {gt: n} and {lt: n} maps of the catalogue
GtOperands == {n \in -1..1 : <<CondGt(n)>> \in ConditionCatalogue}
LtOperands == {n \in -1..1 : <<CondLt(n)>> \in ConditionCatalogue}

\* the event of task t carries the number v under metadata.k
CarriesNumber(t, v) == SlotOf(t, "k") = MetaVal(Num(v))

\* C23: under {metadata.k: {gt: n}} an event carrying the integer v (0 and
\* negatives included) triggers the campaign exactly when v > n, under
\* {metadata.k: {lt: n}} exactly when v < n, and an event without
\* metadata.k triggers neither.
C23_GtLtOnEveryInteger ==
    /\ \A n \in GtOperands : \A e \in EvaluatedUnder(<<CondGt(n)>>) :
         /\ \A v \in -1..1 : CarriesNumber(dispatch[e], v) =>
                (TriggeredBy(dispatch[e], Campaigns[1]) <=> v > n)
         /\ ~SlotOf(dispatch[e], "k").has => ~TriggeredBy(dispatch[e], Campaigns[1])
    /\ \A n \in LtOperands : \A e \in EvaluatedUnder(<<CondLt(n)>>) :
         /\ \A v \in -1..1 : CarriesNumber(dispatch[e], v) =>
                (TriggeredBy(dispatch[e], Campaigns[1]) <=> v < n)
         /\ ~SlotOf(dispatch[e], "k").has => ~TriggeredBy(dispatch[e], Campaigns[1])

\* C24: the first campaign is triggered exactly when every entry of its
\* condition map holds for the event (an operator entry as its operators
\* say, a literal entry when the value at the path equals the literal); in
\* particular the empty map is matched by every event.
C24_ConjunctionOfEntries ==
    \A conds \in ConditionCatalogue : \A e \in EvaluatedUnder(conds) :
        /\ TriggeredBy(dispatch[e], Campaigns[1]) <=> Satisfies(conds, events[e].meta)
        /\ conds = <<>> => TriggeredBy(dispatch[e], Campaigns[1])

\* C25: evaluating the filters of a campaign never raises: no call of
\* processEvent is rejected while it evaluates a candidate, a candidate
\* whose condition cannot be evaluated is not triggered, the candidates
\* after it are evaluated and the event is marked processed.
C25_FiltersNeverRaise ==
    \A e \in 1..MaxEvents :
        /\ ~(dispatch[e].pc = "threw" /\ dispatch[e].stage = "filter")
        /\ dispatch[e].pc \in {"done", "threw"} =>
              /\ \A a \in DOMAIN dispatch[e].cands : dispatch[e].cands[a] \in dispatch[e].evald
              /\ events[e].processed

\* C26: whatever the lookup finds and whatever fails inside, an open
\* request is answered with the single-pixel image and a click request
\* with a redirect; no request is answered with an error.
C26_NeverAnError ==
    \A h \in Hits :
        /\ hit[h].response # "error"
        /\ hit[h].kind = "open" => hit[h].response = "pixel"
        /\ (hit[h].kind = "click" /\ hit[h].pc = "done") =>
              hit[h].response = "redirect" /\ hit[h].location # NoUrl

\* C26 witness: a click request whose service call was rejected has been
\* answered with a redirect while an open request whose trackingId matches
\* no Delivery has been answered with the pixel.
C26_Witness ==
    \E h1, h2 \in Hits :
        /\ hit[h1].kind = "click" /\ hit[h1].pc = "done" /\ hit[h1].threw
        /\ hit[h1].response = "redirect"
        /\ hit[h2].kind = "open" /\ hit[h2].pc = "done" /\ hit[h2].email = 0
        /\ hit[h2].response = "pixel"

\* C27: a click request that the service handled without an error is
\* redirected to links[idx].original of the Delivery found when its
\* trackingId matches a Delivery and its index one of that Delivery's
\* links, and to the default destination "/" otherwise.
C27_ClickRedirectTarget ==
    \A h \in Hits :
        (hit[h].kind = "click" /\ hit[h].pc = "done" /\ ~hit[h].threw) =>
            LET id == findOne(hit[h].tid)
            IN  /\ hit[h].response = "redirect"
                /\ hit[h].location =
                      IF id # 0 /\ hit[h].idx \in 1..LinksPerEmail
                      THEN OriginalUrl(id, hit[h].idx) ELSE DefaultUrl

\* C27 witness: one click was redirected to the second link of the Delivery
\* it names, another, with an index past the last link, to "/", and a third,
\* with a trackingId that matches no Delivery, to "/".
C27_Witness ==
    \E h1, h2, h3 \in Hits :
        /\ \A h \in {h1, h2, h3} : hit[h].kind = "click" /\ hit[h].pc = "done" /\ ~hit[h].threw
        /\ hit[h1].email # 0 /\ hit[h1].location = OriginalUrl(hit[h1].email, 2)
        /\ hit[h2].email # 0 /\ hit[h2].idx > LinksPerEmail /\ hit[h2].location = DefaultUrl
        /\ findOne(hit[h3].tid) = 0 /\ hit[h3].location = DefaultUrl

\* the analytics counters of a campaign
CounterNames == {"sent", "opened", "clicked", "bounced", "unsubscribed", "complained"}

\* C28: no step of a worker run, of a tracking request or of a campaign
\* update lowers an analytics counter of a campaign.
C28_CountersMonotone ==
    [][\A c \in CampaignIds : \A f \in CounterNames : analytics'[c][f] >= analytics[c][f]]_vars

\* C28 witness: the first campaign counts a sent and an opened Delivery and
\* has been renamed by the PATCH whose body also carries analytics
\* counters of zero.
C28_Witness ==
    /\ campaigns[Campaigns[1]].name = "n1"
    /\ analytics[Campaigns[1]].sent >= 1
    /\ analytics[Campaigns[1]].opened >= 1

\* the $inc operations that requests of the given kind have issued for
\* campaign c
IncsIssued(kind, c) ==
    Cardinality({h \in Hits : /\ hit[h].kind = kind /\ hit[h].incd = 1
                              /\ emails[hit[h].email].campaignId = c})

\* C29: however the tracking requests overlap, each campaign's opened and
\* clicked counters stand exactly as many above their initial zero as
\* requests have incremented them: no increment is lost.
C29_NoLostIncrement ==
    \A c \in CampaignIds :
        /\ analytics[c].opened = IncsIssued("open", c)
        /\ analytics[c].clicked = IncsIssued("click", c)

\* C29 witness: three open requests for one Delivery overlapped (each found
\* it not yet opened), each incremented the campaign's opened counter, and
\* the counter stands at three.
C29_Witness ==
    \E d \in DOMAIN emails :
        /\ \A h \in Hits : /\ hit[h].kind = "open" /\ hit[h].pc = "done"
                           /\ hit[h].email = d /\ hit[h].seen # "opened"
                           /\ hit[h].incd = 1
        /\ analytics[emails[d].campaignId].opened = Cardinality(Hits)

\* Positions p < q of the template body of email d hold two identical
\* anchors to one literal URL that addTracking tracks.
IdenticalAnchors(d, p, q) ==
    LET html == TemplateCatalogue[emails[d].templateId]
    IN  /\ p \in DOMAIN html /\ q \in DOMAIN html /\ p < q
        /\ html[p] = html[q]
        /\ html[p].tag = "a" /\ Trackable(html[p].href)

\* Every href="..." of the template body of email d that holds the URL of
\* position p is a double-quoted href of an anchor.
OnlyInDoubleQuotedAnchors(d, p) ==
    LET html == TemplateCatalogue[emails[d].templateId]
    IN  \A r \in DOMAIN html :
            html[r].href = html[p].href => html[r].tag = "a" /\ html[r].quote = "dq"

IsTrackedAnchor(tok) == tok.tag = "a" /\ tok.href.kind \notin {"empty", "#", "mailto"}

\* C31: addTracking leaves every anchor to an in-page fragment or a mailto:
\* target as it is and out of the registry; the registry lists the hrefs of
\* the remaining anchors in document order, entry i with the click URL of
\* index i; an anchor rewritten to the click URL of index i has
\* links[i].original equal to its original href, and a later rewritten
\* anchor has a higher index.
C31_RegistryInDocumentOrder ==
    \A d \in DOMAIN emails :
        LET html == TemplateCatalogue[emails[d].templateId]
            body == emails[d].body
            links == emails[d].links
            kept == SelectSeq(html, IsTrackedAnchor)
        IN  /\ Len(body) = Len(html)
            /\ Len(links) = Len(kept)
            /\ \A i \in DOMAIN links :
                  links[i].original = kept[i].href /\ links[i].tracking = Track(i)
            /\ \A p \in DOMAIN html :
                  /\ (html[p].tag = "a" /\ html[p].href.kind \in {"#", "mailto"}) =>
                        body[p] = html[p]
                  /\ (html[p].tag = "a" /\ body[p].href.kind = "track") =>
                        /\ body[p].href.n \in DOMAIN links
                        /\ links[body[p].href.n].original = html[p].href
                  /\ \A q \in DOMAIN html :
                        (/\ p < q /\ html[p].tag = "a" /\ html[q].tag = "a"
                         /\ body[p].href.kind = "track" /\ body[q].href.kind = "track")
                        => body[p].href.n < body[q].href.n

\* C31 witness: a Delivery made from the template whose first anchors go to
\* a fragment, a mailto: target and an empty href; they are unchanged and
\* the anchors after them carry the first two indices.
C31_Witness ==
    \E d \in DOMAIN emails :
        /\ emails[d].templateId = "skipped"
        /\ emails[d].body[1].href = Fragment /\ emails[d].body[2].href = Mailto
        /\ emails[d].body[4].href = Track(1) /\ emails[d].body[5].href = Track(2)
        /\ Len(emails[d].links) = 2 /\ emails[d].links[1].original = Url(1)

\* the value of key in the variable context, <<>> when the key is absent
ContextValue(variables, key) ==
    LET at == {i \in DOMAIN variables : variables[i].key = key}
    IN  IF at = {} THEN <<>> ELSE <<variables[CHOOSE i \in at : \A j \in at : j <= i].value>>

\* the text in which every placeholder whose key is in the context stands
\* replaced by the characters of that key's value and every other piece is
\* as it was
RECURSIVE Substituted(_, _, _)
Substituted(template, p, variables) ==
    IF p > Len(template) THEN <<>>
    ELSE (IF template[p].t = "hole" /\ ContextValue(variables, template[p].key) # <<>>
          THEN Pieces(ContextValue(variables, template[p].key)[1])
          ELSE <<template[p]>>) \o Substituted(template, p + 1, variables)

\* C32: the rendered subject of every Delivery is the template's subject
\* with each {{key}} (with or without whitespace) whose key is in the
\* variable context replaced by that key's value and every placeholder of
\* an absent key left verbatim.
C32_RenderSubstitutes ==
    \A d \in DOMAIN emails :
        emails[d].subject =
            Substituted(SubjectCatalogue[emails[d].templateId], 1,
                        Variables(events[emails[d].eventId]))

\* C33: trackEvent has answered 201 as soon as the event is stored, while
\* its background task has not yet run; the task only ever works on a
\* stored event, which has processed = false until a run of the Matcher
\* has gone through it; and after the task was rejected or lost the answer
\* is the same and the event is still stored.
C33_IngestionReturnsAtOnce ==
    \A e \in 1..MaxEvents :
        /\ dispatch[e].pc # "idle" =>
              /\ e \in DOMAIN events /\ dispatch[e].ev = e
              /\ dispatch[e].response = "created"
        /\ e \in DOMAIN events =>
              /\ dispatch[e].pc # "idle"
              /\ events[e].runs = "never" => ~events[e].processed
        /\ dispatch[e].pc \in {"threw", "lost"} =>
              e \in DOMAIN events /\ dispatch[e].response = "created"

\* C33 witness: the request was answered and the background task was then
\* rejected; the event is stored, still unprocessed.
C33_Witness ==
    \E e \in DOMAIN events :
        /\ dispatch[e].pc = "threw" /\ dispatch[e].response = "created"
        /\ ~events[e].processed

\* C34: no step of a click request sets openedAt of a Delivery or changes
\* a campaign's opened counter, and the step that records a click on a
\* registered link leaves the Delivery in status clicked; so a Delivery
\* that was never opened is clicked with openedAt still unset.
C34_ClickDoesNotCreditOpen ==
    [][\A h \in Hits :
          (hit'[h] # hit[h] /\ hit'[h].kind = "click") =>
              /\ \A i \in DOMAIN emails : emails'[i].openedAt = emails[i].openedAt
              /\ \A c \in CampaignIds : analytics'[c].opened = analytics[c].opened
              /\ (hit[h].pc = "clickSave" /\ hit'[h].pc = "clickInc") =>
                    emails'[hit[h].email].status = "clicked"]_vars

\* C34 witness: a click request has finished on a Delivery that no open
\* request ever touched; the Delivery is clicked, its openedAt is unset and
\* the campaign's opened counter is zero.
C34_Witness ==
    \E h \in Hits :
        /\ hit[h].kind = "click" /\ hit[h].pc = "done" /\ ~hit[h].threw
        /\ hit[h].email # 0 /\ hit[h].seen = "sent"
        /\ emails[hit[h].email].status = "clicked"
        /\ emails[hit[h].email].clickedAt # NoDate
        /\ emails[hit[h].email].openedAt = NoDate
        /\ analytics[emails[hit[h].email].campaignId].opened = 0

\* the click requests for link idx of Delivery d that are past trackClick
ClicksHandled(d, idx) ==
    {h \in Hits : /\ hit[h].kind = "click" /\ hit[h].pc \in {"clickInc", "done"}
                  /\ ~hit[h].threw /\ hit[h].email = d /\ hit[h].idx = idx}

\* C35: when requests are handled one after the other, the click count of
\* each link of a Delivery is the number of click requests handled for that
\* link, whatever the status of the Delivery was before each of them, and
\* a link with a handled click has its lastClickedAt set.
C35_EveryClickCounts ==
    \A d \in DOMAIN emails : \A idx \in DOMAIN emails[d].clicks :
        /\ emails[d].clicks[idx] = Cardinality(ClicksHandled(d, idx))
        /\ ClicksHandled(d, idx) # {} => emails[d].lastClickedAt[idx] # NoDate

\* C35 witness: three click requests were handled for one link, the first
\* on a sent Delivery and the others on a clicked one; the count is three.
C35_Witness ==
    \E d \in DOMAIN emails : \E idx \in DOMAIN emails[d].clicks :
        /\ Cardinality(ClicksHandled(d, idx)) = Cardinality(Hits)
        /\ \E h \in ClicksHandled(d, idx) : hit[h].seen = "sent"
        /\ \E h \in ClicksHandled(d, idx) : hit[h].seen = "clicked"
        /\ emails[d].clicks[idx] = Cardinality(Hits)
        /\ emails[d].lastClickedAt[idx] # NoDate

\* ---------------------------------------------------------------- C36
ExtendedAtEnd(old, new) ==
    /\ Len(old) <= Len(new)
    /\ \A i \in 1..Len(old) : new[i] = old[i]

\* C36: in every step of the matcher and of the sweep, every stored event is
\* still stored afterwards, an event whose processed flag is true keeps it
\* true, and the triggeredCampaigns of each event keep their entries in
\* their order, new entries being added at the end only.
C36_EventsOnlyGrow ==
    [][\A e \in DOMAIN events :
          /\ e \in DOMAIN events'
          /\ events[e].processed => events'[e].processed
          /\ ExtendedAtEnd(events[e].triggeredCampaigns, events'[e].triggeredCampaigns)]_vars

\* C36 witness: a processed event with two triggered campaigns recorded in
\* the order they were matched.
C36_Witness ==
    \E e \in DOMAIN events :
        /\ events[e].processed
        /\ Len(events[e].triggeredCampaigns) >= 2
        /\ events[e].triggeredCampaigns[1].campaignId # events[e].triggeredCampaigns[2].campaignId

\* ---------------------------------------------------------------- C37
Returned == {t \in Tasks : t.pc = "done"}

\* C37: once processEvent has returned for an event and no other call is
\* working on that event, every scheduled entry of its triggeredCampaigns
\* has a stored Delivery of the same event and campaign with the same
\* scheduledFor, and every campaign in the returned list has a Delivery.
C37_EntriesHaveDeliveries ==
    \A t \in Returned :
        ~InFlight(t.ev) =>
            /\ \A k \in DOMAIN events[t.ev].triggeredCampaigns :
                 LET entry == events[t.ev].triggeredCampaigns[k]
                 IN  entry.status = "scheduled" =>
                       \E i \in EmailsOf(t.ev, entry.campaignId) :
                           emails[i].scheduledFor = entry.scheduledFor
            /\ \A k \in DOMAIN t.triggered : EmailsOf(t.ev, t.triggered[k]) # {}

\* ---------------------------------------------------------------- C38
StatusOf(i) == IF i \in DOMAIN emails THEN emails[i].status ELSE "none"

StoredAndDue(i) == IF i \in DOMAIN emails THEN Due(i) ELSE FALSE

\* C38: when the delivery worker keeps being run, every Delivery that is
\* scheduled and due eventually has status sent or failed, and no Delivery
\* stays in status sending forever.
C38_DueDeliveriesSettle ==
    \A i \in 1..MaxEmails :
        /\ StoredAndDue(i) ~> (StatusOf(i) \in {"sent", "failed"})
        /\ ~<>[](StatusOf(i) = "sending")

\* ---------------------------------------------------------------- C39
\* request r carries a trackingId that no Delivery has, or is a click on a
\* link index that is not in the registry of its Delivery
Unresolved(r) ==
    /\ r.kind \in {"open", "click"}
    /\ \/ findOne(r.tid) = 0
       \/ /\ r.kind = "click"
          /\ r.idx \notin DOMAIN emails[findOne(r.tid)].links

\* C39: no step of the handling of an open or click request whose
\* trackingId matches no Delivery, or of a click request whose link index is
\* not in the Delivery's link registry, changes a Delivery or a Campaign
\* counter.
C39_UnresolvedHitsChangeNothing ==
    [][\A h \in Hits :
          (hit'[h] # hit[h] /\ Unresolved(hit'[h]))
              => (emails' = emails /\ analytics' = analytics)]_vars

\* ---------------------------------------------------------------- C40
\* C40: in every sequence of worker runs, overlapping ones included, a step
\* that calls the Email Transport for a Delivery is taken at a time that
\* is not before the scheduledFor of that Delivery.
C40_NoSendBeforeScheduledFor ==
    [][\A i \in DOMAIN emails :
          emails'[i].sends > emails[i].sends => emails[i].scheduledFor <= now]_vars

\* C40 witness: a Delivery that was not yet due when the worker runs began
\* has been handed to the Email Transport.
C40_Witness ==
    \E i \in DOMAIN emails :
        /\ emails[i].scheduledFor > 0
        /\ emails[i].sends >= 1
        /\ \E j \in DOMAIN emails : emails[j].scheduledFor = 0 /\ emails[j].sends >= 1

====
